---- MODULE Spec2Model ----
(***************************************************************************)
(* Verification model of the fcp-support daemon (fcp-server) and of the    *)
(* wire behaviour its companion client depends on.                         *)
(*                                                                         *)
(* The daemon is single-threaded.  Each handler of the select loop and     *)
(* each control read/write function is one action.  The device is the      *)
(* environment: every transport command can be accepted or rejected.       *)
(* C arrays are functions over 0..n-1 so that the indices are the source's.*)
(***************************************************************************)
EXTENDS Integers, Sequences, FiniteSets, TLC

VARIABLES
  \* ---- mixer / router caches (mix.c, mux.c) ----
  caps,        \* capability categories the device reported (device-ops.c:279-283)
  mix_dev,     \* device: mixer matrix, [row -> [input -> coefficient]]
  mix_cache,   \* device->mix_cache: [row -> [values, dirty]]
  mux_dev,     \* device: router tables, [rate -> [slot -> u32]]
  mux_cache,   \* device->mux_cache: [values: [rate -> [slot -> u32]], dirty]
  heap_oob,    \* TRUE once a store landed outside the router tables
  \* ---- control vector and control surface (device-ops.c, main.c) ----
  surface,     \* ALSA element value per daemon control
  props_value, \* control_props.value per control (the cached scalar)
  events,      \* element events queued for the daemon (ALSA merges per element)
  \* ---- client socket server (fcp-socket.c) ----
  listen_q,    \* connections waiting in the listening socket's accept queue
  conn_st,     \* per connection: "unused", "pending", "accepted" or "closed"
  client,      \* struct client_state: fd, buffered pieces, total_size, size
  rx,          \* pieces the connected client has sent and the daemon not read
  peer_closed, \* the connected client has closed its end
  reqs_sent,   \* requests sent by clients so far
  flash,       \* have_flash_info and the segment numbers and sizes
  flash_dev,   \* device: its flash segment table
  erase_last_progress, \* erase_flash_segment's static last_progress
  daemon,      \* "running", "exited" (run() returned) or "crashed"
  faults,      \* transport commands rejected so far
  written,     \* history: per control, the value of its last write if that
               \* write returned success, else -1
  lastCall,    \* the most recent handler call: what it was given, returned, issued
  loop,        \* run(): its place in the loop body (pc), the descriptors
               \* select reported (rfds), the handlers run since (ran)
  card,        \* the sound card: "present", "rebooting" once the device has
               \* accepted INIT/reboot, "removed" once it has left the bus
  ctrl_mgr,    \* device->ctrl_mgr.controls: the control vector, in the order
               \* add_control appended its records
  data_dev     \* device: the APP_SPACE bytes DATA/write has stored, by
               \* offset; a location never written holds 0

cacheVars == <<caps, mix_dev, mix_cache, mux_dev, mux_cache, heap_oob>>

ctlVars == <<surface, props_value, events>>

sockVars == <<listen_q, conn_st, client, rx, peer_closed, reqs_sent,
              flash, flash_dev, erase_last_progress>>

vars == <<caps, mix_dev, mix_cache, mux_dev, mux_cache, heap_oob,
          surface, props_value, events,
          listen_q, conn_st, client, rx, peer_closed, reqs_sent,
          flash, flash_dev, erase_last_progress,
          daemon, faults, written, lastCall, loop, card, ctrl_mgr,
                 data_dev>>

\* What the handlers of the event loop leave alone when they are exercised
\* one by one.
restVars == <<loop, card, ctrl_mgr,
                 data_dev>>

\* ------------------------------------------------------------------ bounds

\* Largest mixer coefficient written or held (the real range is 0..32613).
MaxCoeff == 1
\* Number of transport commands the device may reject in one run.
MaxFaults == 1
\* Connections clients open in one run, and how many may wait to be accepted.
MaxConns == 2
MaxPending == 1
\* Requests clients send in one run.
MaxRequests == 2
\* Erase-progress polls answered with a block count before the last answer.
MaxPolls == 1
\* Departures of the device and the ESP from a faultless ESP update.
MaxEspFaults == 2
\* Frames a client takes before it closes its connection during a request.
MaxTaken == 2

\* ------------------------------------------------- device-reported geometry

\* fcp_mix_info: number of mixer output rows and of inputs per row.
mix_output_count == 2
mix_input_count == 2

MixRows == 0 .. (mix_output_count - 1)
MixCols == 0 .. (mix_input_count - 1)
MixVals == 0 .. MaxCoeff

\* offset of the mixer control for row i and mixer-input-index mix_index
MixControlOffset(i, mix_index) == i * mix_input_count + mix_index

MixControls == { MixControlOffset(i, j) : i \in MixRows, j \in MixCols }

NoCall == [op |-> "none"]

\* The device's APP_SPACE with nothing written to it.
NoData == <<>>

\* run() between iterations: blocked in select(), nothing reported yet.
AtSelect == [pc |-> 0, rfds |-> {}, ran |-> <<>>]

\* ------------------------------------------------------------ mixer cache

\* A device command as the transport sees it.
MixReadCmd(r, ok) == [op |-> "MIX_READ", num |-> r, ok |-> ok]
MixWriteCmd(r, row, ok) == [op |-> "MIX_WRITE", num |-> r, values |-> row, ok |-> ok]

\* Variant of get_cached_mix_values that leaves a fetched row marked dirty.
get_cached_mix_values_StaysDirty(cache, dev, mix_output, rdOk) ==
  IF mix_output < 0 \/ mix_output >= mix_output_count
  THEN [err |-> -22, cache |-> cache, cmds |-> <<>>]
  ELSE IF rdOk
  THEN [err |-> 0,
        cache |-> [cache EXCEPT ![mix_output] =
                     [values |-> dev[mix_output], dirty |-> TRUE]],
        cmds |-> <<MixReadCmd(mix_output, TRUE)>>]
  ELSE [err |-> -5, cache |-> cache,
        cmds |-> <<MixReadCmd(mix_output, FALSE)>>]

\* get_cached_mix_values: the row is fetched only while it is dirty.
get_cached_mix_values(cache, dev, mix_output, rdOk) ==
  IF mix_output < 0 \/ mix_output >= mix_output_count
  THEN [err |-> -22, cache |-> cache, cmds |-> <<>>]
  ELSE IF cache[mix_output].dirty
  THEN IF rdOk
       THEN [err |-> 0,
             cache |-> [cache EXCEPT ![mix_output] =
                          [values |-> dev[mix_output], dirty |-> FALSE]],
             cmds |-> <<MixReadCmd(mix_output, TRUE)>>]
       ELSE [err |-> -5, cache |-> cache,
             cmds |-> <<MixReadCmd(mix_output, FALSE)>>]
  ELSE [err |-> 0, cache |-> cache, cmds |-> <<>>]

\* Row and column addressed by a mixer control's offset.
MixOutputOf(offset) == offset \div mix_input_count
\* Variant of MixInputOf that takes the row index for the column.
MixInputOf_AsRow(offset) == offset \div mix_input_count
MixInputOf(offset) == offset % mix_input_count

\* read_mix_control
ReadMixControl(offset, rdOk) ==
 \E g \in {get_cached_mix_values(mix_cache, mix_dev, MixOutputOf(offset), rdOk)} :
  LET mix_output == MixOutputOf(offset)
      mix_input  == MixInputOf(offset)
  IN  /\ daemon = "running"
      /\ "MIX" \in caps
      /\ (rdOk \/ faults < MaxFaults)
      /\ (~rdOk => mix_cache[mix_output].dirty)
      /\ mix_cache' = g.cache
      /\ faults' = IF rdOk THEN faults ELSE faults + 1
      /\ lastCall' = [op |-> "read_mix", offset |-> offset, err |-> g.err,
                      value |-> IF g.err < 0 THEN -1
                                ELSE g.cache[mix_output].values[mix_input],
                      cmds |-> g.cmds]
      /\ UNCHANGED <<caps, mix_dev, mux_dev, mux_cache, heap_oob, daemon, written, ctlVars, sockVars>>

\* write_mix_control: fetch the row if dirty, set one coefficient, flush the row.
WriteMixControl(offset, value, rdOk, wrOk) ==
 \E g \in {get_cached_mix_values(mix_cache, mix_dev, MixOutputOf(offset), rdOk)} :
  LET mix_output == MixOutputOf(offset)
      mix_input  == MixInputOf(offset)
      row == [g.cache[mix_output].values EXCEPT ![mix_input] = value]
  IN  /\ daemon = "running"
      /\ "MIX" \in caps
      /\ (~rdOk => mix_cache[mix_output].dirty)
      /\ (~wrOk => rdOk)
      /\ ((rdOk /\ wrOk) \/ faults < MaxFaults)
      /\ faults' = IF rdOk /\ wrOk THEN faults ELSE faults + 1
      /\ written' = [written EXCEPT !.mix[offset] =
                        IF g.err = 0 /\ wrOk THEN value ELSE -1]
      /\ IF g.err < 0
         THEN /\ mix_cache' = g.cache
              /\ mix_dev' = mix_dev
              /\ lastCall' = [op |-> "write_mix", offset |-> offset,
                              value |-> value, err |-> g.err, cmds |-> g.cmds]
         ELSE /\ mix_cache' = [g.cache EXCEPT ![mix_output].values = row]
              /\ mix_dev' = IF wrOk THEN [mix_dev EXCEPT ![mix_output] = row]
                            ELSE mix_dev
              /\ lastCall' = [op |-> "write_mix", offset |-> offset,
                              value |-> value,
                              err |-> IF wrOk THEN 0 ELSE -5,
                              cmds |-> g.cmds \o
                                       <<MixWriteCmd(mix_output, row, wrOk)>>]
      /\ UNCHANGED <<caps, mux_dev, mux_cache, heap_oob, daemon, ctlVars, sockVars>>


\* ------------------------------------------------------------ router cache

\* A router slot is a u32: destination pin in bits 0..11, source pin above.
PinRange == 4096

Rates == 0 .. 2

ZeroBased(seq) == [i \in 0 .. (Len(seq) - 1) |-> seq[i + 1]]

\* fcp_mux_info: table size per rate group.
mux_size == ZeroBased(<<2, 2, 1>>)

\* init_mux_cache: "Off" (pin 0) followed by the product map's sources.
input_router_pin == ZeroBased(<<0, 515, 516>>)
input_count == Cardinality(DOMAIN input_router_pin)
MuxInputs == 0 .. (input_count - 1)

\* Router pins of the product map's sinks, in sink order, and for each the
\* index of its static source in the device map (-1: routable).
MuxDestPin == ZeroBased(<<16, 17, 18>>)
MuxDestStaticPin == ZeroBased(<<-1, -1, 516>>)
MuxOutputs == DOMAIN MuxDestPin

\* The router tables the device holds when the daemon starts: destination
\* 16 is present at every rate, destination 17 only at rates 0 and 1.
MuxDevInit ==
  [rate \in Rates |->
     CASE rate = 0 -> ZeroBased(<<16, 17>>)
       [] rate = 1 -> ZeroBased(<<17, 16>>)
       [] rate = 2 -> ZeroBased(<<16>>)]

\* The first index of a C loop "for (k = 0; ...) if (hit) break": the smallest
\* element of S, or -1 when the loop finds nothing.
FirstOf(S) == IF S = {} THEN -1 ELSE CHOOSE k \in S : \A j \in S : k <= j

\* router_pin_to_input: the first input with that pin, input 0 if none.
router_pin_to_input(router_pin) ==
  LET i == FirstOf({ k \in DOMAIN input_router_pin :
                       input_router_pin[k] = router_pin })
  IN  IF i < 0 THEN 0 ELSE i

\* add_mux_controls: the slot of table `rate` whose low 12 bits hold the pin.
FindRouterSlot(values, rate, router_pin) ==
  FirstOf({ k \in DOMAIN values[rate] : (values[rate][k] % PinRange) = router_pin })

\* add_mux_controls: output_router_slots[output * 3 + rate]
InitRouterSlots(values) ==
  [k \in 0 .. (3 * Cardinality(MuxOutputs) - 1) |->
     LET o == k \div 3
         rate == k % 3
     IN  IF MuxDestStaticPin[o] >= 0 THEN -1
         ELSE FindRouterSlot(values, rate, MuxDestPin[o])]

\* add_mux_controls: output_fixed_input[output]
InitFixedInput ==
  [o \in MuxOutputs |->
     IF MuxDestStaticPin[o] >= 0 THEN router_pin_to_input(MuxDestStaticPin[o])
     ELSE -1]

MuxReadCmd(rate, ok) == [op |-> "MUX_READ", num |-> rate, ok |-> ok]
MuxWriteCmd(rate, values, ok) ==
  [op |-> "MUX_WRITE", num |-> rate, values |-> values, ok |-> ok]

RECURSIVE MuxReadTables(_, _, _, _)
\* The loop of get_cached_mux_values: tables are read in rate order into the
\* cache; the first rejected read ends the loop and leaves the cache dirty.
MuxReadTables(st, dev, rate, failAt) ==
  IF rate > 2 THEN [st EXCEPT !.cache.dirty = FALSE]
  ELSE IF rate = failAt
  THEN [st EXCEPT !.err = -5, !.cmds = @ \o <<MuxReadCmd(rate, FALSE)>>]
  ELSE MuxReadTables(
         [st EXCEPT !.cache.values[rate] = dev[rate],
                    !.cmds = @ \o <<MuxReadCmd(rate, TRUE)>>],
         dev, rate + 1, failAt)

\* get_cached_mux_values
get_cached_mux_values(cache, dev, failAt) ==
  IF cache.dirty
  THEN MuxReadTables([err |-> 0, cache |-> cache, cmds |-> <<>>], dev, 0, failAt)
  ELSE [err |-> 0, cache |-> cache, cmds |-> <<>>]

\* The source pin a slot holds (values[slot] >> 12).
SlotSource(v) == v \div PinRange
\* (values[slot] & 0xFFF) | (router_pin << 12)
SlotWithSource(v, router_pin) == (v % PinRange) + router_pin * PinRange

\* read_mux_control
ReadMuxControl(offset, failAt) ==
 \E g \in {get_cached_mux_values(mux_cache, mux_dev, failAt)} :
  LET fixed == mux_cache.output_fixed_input[offset]
      slot0 == mux_cache.output_router_slots[offset * 3]
      value == IF g.err < 0 THEN -1
               ELSE IF fixed >= 0 THEN fixed
               ELSE router_pin_to_input(SlotSource(g.cache.values[0][slot0]))
  IN  /\ daemon = "running"
      /\ "MUX" \in caps
      /\ (failAt \in Rates => mux_cache.dirty /\ faults < MaxFaults)
      /\ faults' = IF failAt \in Rates THEN faults + 1 ELSE faults
      /\ mux_cache' = g.cache
      /\ lastCall' = [op |-> "read_mux", offset |-> offset, err |-> g.err,
                      value |-> value, cmds |-> g.cmds]
      /\ UNCHANGED <<caps, mix_dev, mix_cache, mux_dev, heap_oob, daemon, written, ctlVars, sockVars>>

\* One iteration of write_mux_control's loop over the three rates.  st.done
\* is set once the function has returned (or the process has died).
MuxWriteRate(st, offset, router_pin, rate, failAt, ubCrash) ==
  IF st.done THEN st
  ELSE IF st.cache.output_fixed_input[offset] >= 0
  THEN [st EXCEPT !.done = TRUE, !.err = -22]
  ELSE
    LET slot_num == st.cache.output_router_slots[offset * 3 + rate]
    IN  IF slot_num < 0 /\ rate = 0
        THEN [st EXCEPT !.done = TRUE, !.err = -22]
        ELSE
          \* values[slot_num] = ...: with slot_num = -1 the store lands in
          \* front of the table (undefined behaviour): the table itself is
          \* not changed, and the process carries on or dies.
          IF slot_num < 0 /\ ubCrash
          THEN [st EXCEPT !.done = TRUE, !.crashed = TRUE, !.oob = TRUE]
          ELSE
            LET values == IF slot_num < 0 THEN st.cache.values[rate]
                          ELSE [st.cache.values[rate] EXCEPT ![slot_num] =
                                  SlotWithSource(@, router_pin)]
                ok == rate # failAt
                s1 == [st EXCEPT !.cache.values[rate] = values,
                                 !.oob = (@ \/ slot_num < 0),
                                 !.cmds = @ \o <<MuxWriteCmd(rate, values, ok)>>]
            IN  IF ok THEN [s1 EXCEPT !.dev[rate] = values]
                ELSE [s1 EXCEPT !.done = TRUE, !.err = -5]

\* The three iterations of write_mux_control's loop, in rate order.
MuxWriteLoop(cache, dev, oob, offset, router_pin, failAt, ubCrash) ==
  LET s0 == [cache |-> cache, dev |-> dev, cmds |-> <<>>, err |-> 0,
             done |-> FALSE, crashed |-> FALSE, oob |-> oob]
      s1 == MuxWriteRate(s0, offset, router_pin, 0, failAt, ubCrash)
      s2 == MuxWriteRate(s1, offset, router_pin, 1, failAt, ubCrash)
  IN  MuxWriteRate(s2, offset, router_pin, 2, failAt, ubCrash)

\* write_mux_control
WriteMuxControl(offset, value, failAt, ubCrash) ==
  \E s3 \in {MuxWriteLoop(mux_cache, mux_dev, heap_oob, offset,
                          input_router_pin[value], failAt, ubCrash)} :
    LET rejected == \E k \in 1 .. Len(s3.cmds) : ~s3.cmds[k].ok
    IN  /\ daemon = "running"
        /\ "MUX" \in caps
        /\ (failAt \in Rates => faults < MaxFaults /\ rejected)
        /\ (ubCrash => s3.crashed)
        /\ faults' = IF rejected THEN faults + 1 ELSE faults
        /\ mux_cache' = s3.cache
        /\ mux_dev' = s3.dev
        /\ heap_oob' = s3.oob
        /\ daemon' = IF s3.crashed THEN "crashed" ELSE daemon
        /\ written' = [written EXCEPT !.mux[offset] =
                          IF s3.err = 0 /\ ~s3.crashed THEN value ELSE -1]
        /\ lastCall' = [op |-> "write_mux", offset |-> offset, value |-> value,
                        err |-> s3.err, crashed |-> s3.crashed, cmds |-> s3.cmds]
        /\ UNCHANGED <<caps, mix_dev, mix_cache, ctlVars, sockVars>>

\* ------------------------------------------------- control vector, surface

\* x & y on non-negative integers
RECURSIVE BitAnd(_, _)
BitAnd(x, y) ==
  IF x = 0 \/ y = 0 THEN 0
  ELSE (x % 2) * (y % 2) + 2 * BitAnd(x \div 2, y \div 2)

\* The control vector (ctrl_mgr.controls) in creation order: two writable
\* boolean data controls whose notify-client masks overlap, one of them with
\* a notify-device opcode, and the read-only sync status control.
Controls ==
  ZeroBased(<<
    [name |-> "Phantom", category |-> "DATA", read_only |-> FALSE,
     notify_client |-> 4, notify_device |-> 0, offset |-> 16,
     has_write_func |-> TRUE, array_index |-> 0, type |-> "BOOLEAN",
     data_type |-> "UINT8", component_count |-> 0, enum_count |-> 0,
     enum_values |-> <<>>],
    [name |-> "Air", category |-> "DATA", read_only |-> FALSE,
     notify_client |-> 6, notify_device |-> 9, offset |-> 17,
     has_write_func |-> TRUE, array_index |-> 0, type |-> "BOOLEAN",
     data_type |-> "UINT8", component_count |-> 0, enum_count |-> 0,
     enum_values |-> <<>>],
    [name |-> "Sync Status", category |-> "SYNC", read_only |-> TRUE,
     notify_client |-> 8, notify_device |-> 0, offset |-> 0,
     has_write_func |-> FALSE, array_index |-> 0, type |-> "ENUMERATED",
     data_type |-> "UINT8", component_count |-> 0, enum_count |-> 2,
     enum_values |-> <<>>] >>)

num_controls == Cardinality(DOMAIN Controls)

\* The control vector in the order add_control appended the controls.
ControlVector == [k \in 1 .. num_controls |-> Controls[k - 1]]
CtlIdx == 0 .. (num_controls - 1)

\* The values a boolean (and the two-entry sync enum) element takes.
CtlVals == {0, 1}

\* Element names events arrive for: the daemon's controls and one element of
\* the card that is not the daemon's.
EventNames == { Controls[i].name : i \in CtlIdx } \cup {"Master"}

\* Notification words the device sends.
NotifyWords == {2, 4, 8, 16}

\* find_control: index of the first control with that name, -1 for NULL.
find_control(name) == FirstOf({ i \in CtlIdx : Controls[i].name = name })

DataReadCmd(offset, ok) == [op |-> "DATA_READ", num |-> offset, ok |-> ok]
DataWriteCmd(offset, value, ok) ==
  [op |-> "DATA_WRITE", num |-> offset, value |-> value, ok |-> ok]
DataNotifyCmd(event, ok) == [op |-> "DATA_NOTIFY", num |-> event, ok |-> ok]
SyncReadCmd(ok) == [op |-> "SYNC_READ", num |-> 0, ok |-> ok]

\* The byte width read_data_control and write_data_control derive from
\* props->data_type; 0 for a data type they reject.
DataWidth(data_type) ==
  CASE data_type \in {"UINT8", "INT8"} -> 1
    [] data_type \in {"UINT16", "INT16"} -> 2
    [] data_type = "UINT32" -> 4
    [] OTHER -> 0

\* props->type == SND_CTL_ELEM_TYPE_ENUMERATED && props->enum_values
\* (a NULL enum_values is the empty sequence).
EnumMapped(props) == props.type = "ENUMERATED" /\ props.enum_values # <<>>

\* Variant of EnumIndexInRange that takes every index.
EnumIndexInRange_Any(value, props) == TRUE

\* !(value < 0 || value >= props->enum_count)
EnumIndexInRange(value, props) == value >= 0 /\ value < props.enum_count

\* write_data_control: [err, cmds]; the device takes the value iff the
\* command is accepted.  An index past enum_values reads outside the array;
\* only the variant of the range test gets there, and it writes -1.
write_data_control(props, value, wrOk) ==
  LET refused == [err |-> -1, cmds |-> <<>>]
      mapped == IF EnumMapped(props)
                THEN IF value + 1 \in DOMAIN props.enum_values
                     THEN props.enum_values[value + 1] ELSE -1
                ELSE value
      width == DataWidth(props.data_type)
  IN  IF props.read_only THEN refused
      ELSE IF props.offset = 0 THEN refused
      ELSE IF props.component_count # 0 THEN refused
      ELSE IF EnumMapped(props) /\ ~EnumIndexInRange(value, props) THEN refused
      ELSE IF width = 0 THEN refused
      ELSE [err |-> IF wrOk THEN 0 ELSE -5,
            cmds |-> <<DataWriteCmd(props.offset + props.array_index * width,
                                    mapped, wrOk)>>]

\* Variant of device_handle_control_change's change test that never sees
\* a change as equal to the cached value.
SameAsCached_Never(new_val, cached) == FALSE

\* if (new_val == props->value) return 0;
SameAsCached(new_val, cached) == new_val = cached

\* Variant of NotifyAfterWrite that notifies whatever notify_device is.
NotifyAfterWrite_Always(props) == TRUE

\* if (props->notify_device) fcp_data_notify(...)
NotifyAfterWrite(props) == props.notify_device # 0

\* device_handle_control_change: [err, value (props->value afterwards), cmds,
\* write_calls (how often the write function was invoked)].
device_handle_control_change(i, new_val, cached, wrOk, ntOk) ==
  LET noop == [err |-> 0, value |-> cached, cmds |-> <<>>, write_calls |-> 0]
  IN  IF i < 0 THEN noop
      ELSE IF SameAsCached(new_val, cached) THEN noop
      ELSE IF Controls[i].read_only THEN noop
      ELSE IF ~Controls[i].has_write_func THEN noop
      ELSE
        LET w == write_data_control(Controls[i], new_val, wrOk)
        IN  IF w.err < 0
            THEN [err |-> w.err, value |-> new_val, cmds |-> w.cmds,
                  write_calls |-> 1]
            ELSE IF NotifyAfterWrite(Controls[i])
            THEN [err |-> IF ntOk THEN 0 ELSE -5, value |-> new_val,
                  cmds |-> w.cmds \o
                           <<DataNotifyCmd(Controls[i].notify_device, ntOk)>>,
                  write_calls |-> 1]
            ELSE [err |-> 0, value |-> new_val, cmds |-> w.cmds,
                  write_calls |-> 1]

\* A loop that goes on whatever its handlers return.
LeavesLoop_Never(err) == FALSE

\* run(): "if (err == -ENODEV) ... break;  if (err < 0) ... break;"
LeavesLoop(err) == err < 0

\* run() with the control descriptor ready because the card has been
\* removed: snd_ctl_read in process_control_event fails with -ENODEV and
\* run() leaves its loop; main returns and the process ends.
ControlGone ==
  /\ daemon = "running"
  /\ card = "removed"
  /\ daemon' = IF LeavesLoop(-19) THEN "exited" ELSE daemon
  /\ lastCall' = [op |-> "control_event", name |-> "", err |-> -19,
                  cmds |-> <<>>]
  /\ UNCHANGED <<cacheVars, ctlVars, sockVars, faults, written, loop, card,
                 ctrl_mgr,
                 data_dev>>

\* run() with the control descriptor ready: process_control_event reads one
\* queued event and the element's value and hands them to
\* device_handle_control_change; run() leaves its loop on a negative result.
\* ctlErr: "ok", "enodev" (snd_ctl_read fails, the card is gone) or
\* "elem_read" (snd_ctl_elem_read fails).
ControlEvent(name, ctlErr, wrOk, ntOk) ==
  /\ daemon = "running"
  /\ name \in events
  /\ (wrOk \/ ntOk)
  /\ (~wrOk \/ ~ntOk \/ ctlErr = "elem_read") => faults < MaxFaults
  /\ (~wrOk \/ ~ntOk) => ctlErr = "ok"
  /\ LET i == find_control(name)
         new_val == IF i < 0 THEN 0 ELSE surface[i]
         cached == IF i < 0 THEN 0 ELSE props_value[i]
     IN
     \E h \in {device_handle_control_change(i, new_val, cached, wrOk, ntOk)} :
       LET rejected == \E k \in 1 .. Len(h.cmds) : ~h.cmds[k].ok
           err == CASE ctlErr = "enodev" -> -19
                    [] ctlErr = "elem_read" -> -5
                    [] OTHER -> h.err
       IN  /\ (~wrOk \/ ~ntOk) => rejected
           /\ events' = IF ctlErr = "enodev" THEN events ELSE events \ {name}
           /\ faults' = IF rejected \/ ctlErr = "elem_read"
                        THEN faults + 1 ELSE faults
           /\ daemon' = IF LeavesLoop(err) THEN "exited" ELSE daemon
           /\ IF ctlErr = "ok"
              THEN /\ props_value' = IF i < 0 THEN props_value
                                     ELSE [props_value EXCEPT ![i] = h.value]
                   /\ written' = IF h.write_calls = 0 THEN written
                                 ELSE [written EXCEPT !.ctl[i] =
                                         IF h.err = 0 THEN new_val ELSE -1]
                   /\ lastCall' = [op |-> "control_change", name |-> name,
                                   new_val |-> new_val, err |-> h.err,
                                   cmds |-> h.cmds,
                                   write_calls |-> h.write_calls]
              ELSE /\ UNCHANGED <<props_value, written>>
                   /\ lastCall' = [op |-> "control_event", name |-> name,
                                   err |-> err, cmds |-> <<>>]
  /\ UNCHANGED <<cacheVars, sockVars, surface>>

\* Variant of NotificationSelects that wants the whole mask present in the word.
NotificationSelects_WholeMask(notification, props) ==
  BitAnd(notification, props.notify_client) = props.notify_client

\* if (!(notification & props->notify_client)) continue;
NotificationSelects(notification, props) ==
  BitAnd(notification, props.notify_client) # 0

\* The command a control's read function issues.
ReadCmdOf(props, ok) ==
  IF props.category = "SYNC" THEN SyncReadCmd(ok)
  ELSE DataReadCmd(props.offset, ok)

\* What a control's read function hands back: a value, or a negative error.
ReadOutcomes == CtlVals \cup {-5}

\* device_handle_notification: "if (values[j] != old_value) changed = true",
\* for the one component a scalar control has.
ValueChanged_Always(value, old_value) == TRUE
ValueChanged(value, old_value) == value # old_value

RECURSIVE NotificationLoop(_, _, _, _)
\* The loop of device_handle_notification from control i on; rd[i] is what
\* the read function of control i hands back.  st.reads lists the controls
\* whose read function ran, st.surface_writes those whose re-read value was
\* written to the surface.
NotificationLoop(st, i, notification, rd) ==
  IF i >= num_controls THEN st
  ELSE IF ~NotificationSelects(notification, Controls[i])
  THEN NotificationLoop(st, i + 1, notification, rd)
  ELSE IF rd[i] < 0
  THEN NotificationLoop(
         [st EXCEPT !.reads = Append(@, i),
                    !.cmds = Append(@, ReadCmdOf(Controls[i], FALSE))],
         i + 1, notification, rd)
  ELSE IF ~ValueChanged(rd[i], st.surface[i])
  THEN NotificationLoop(
         [st EXCEPT !.reads = Append(@, i),
                    !.cmds = Append(@, ReadCmdOf(Controls[i], TRUE))],
         i + 1, notification, rd)
  ELSE NotificationLoop(
         [st EXCEPT !.reads = Append(@, i),
                    !.cmds = Append(@, ReadCmdOf(Controls[i], TRUE)),
                    !.surface[i] = rd[i],
                    !.surface_writes = Append(@, i)],
         i + 1, notification, rd)

\* device_handle_notification
device_handle_notification(notification, surf, rd) ==
  NotificationLoop([reads |-> <<>>, cmds |-> <<>>, surface |-> surf,
                    surface_writes |-> <<>>],
                   0, notification, rd)

SeqRange(q) == { q[k] : k \in 1 .. Len(q) }

\* run() with the hwdep descriptor ready and a notification word read: the
\* word goes to device_handle_notification.  The device may have changed any
\* value, so each read hands back any value (rd).  A surface write by the
\* daemon queues an element event like any other.
Notification(notification, rd) ==
  /\ daemon = "running"
  /\ \A i \in CtlIdx : ~NotificationSelects(notification, Controls[i]) => rd[i] = 0
  /\ faults + Cardinality({ i \in CtlIdx : rd[i] < 0 }) <= MaxFaults
  /\ \E h \in {device_handle_notification(notification, surface, rd)} :
       /\ surface' = h.surface
       /\ events' = events \cup
                      { Controls[i].name : i \in SeqRange(h.surface_writes) }
       /\ lastCall' = [op |-> "notification", notification |-> notification,
                       reads |-> h.reads,
                       surface_writes |-> h.surface_writes,
                       rd |-> rd, old_surface |-> surface,
                       new_surface |-> h.surface]
  /\ faults' = faults + Cardinality({ i \in CtlIdx : rd[i] < 0 })
  /\ UNCHANGED <<cacheVars, sockVars, props_value, daemon, written>>

\* run() with the hwdep descriptor ready when snd_hwdep_read fails: the loop ends.
NotificationReadFails ==
  /\ daemon = "running"
  /\ faults < MaxFaults
  /\ faults' = faults + 1
  /\ daemon' = "exited"
  /\ lastCall' = [op |-> "hwdep_read", err |-> -5, cmds |-> <<>>]
  /\ UNCHANGED <<cacheVars, sockVars, surface, props_value, events, written>>

\* An application writes a new value to an unlocked (not read-only) element;
\* ALSA queues an element event for every subscriber.
AppWrite(i, v) ==
  /\ ~Controls[i].read_only
  /\ surface[i] # v
  /\ surface' = [surface EXCEPT ![i] = v]
  /\ events' = events \cup {Controls[i].name}
  /\ lastCall' = NoCall
  /\ UNCHANGED <<cacheVars, sockVars, props_value, daemon, faults, written>>

\* An element that is not the daemon's changes.
OtherElementEvent ==
  /\ "Master" \notin events
  /\ events' = events \cup {"Master"}
  /\ lastCall' = NoCall
  /\ UNCHANGED <<cacheVars, sockVars, surface, props_value, daemon, faults, written>>

\* ------------------------------------------------------------ socket wire

\* Error codes sent in ERROR frames (the shared protocol header's table).
FCP_SOCKET_ERR_INVALID_MAGIC == 1
FCP_SOCKET_ERR_INVALID_LENGTH == 2
FCP_SOCKET_ERR_INVALID_COMMAND == 3
FCP_SOCKET_ERR_INVALID_HASH == 4
FCP_SOCKET_ERR_INVALID_USB_ID == 5
FCP_SOCKET_ERR_INVALID_STATE == 6
FCP_SOCKET_ERR_NOT_LEAPFROG == 7
FCP_SOCKET_ERR_READ == 8
FCP_SOCKET_ERR_WRITE == 9
FCP_SOCKET_ERR_TIMEOUT == 10
FCP_SOCKET_ERR_FCP == 11
FCP_SOCKET_ERR_CONFIG == 12

\* sizeof(struct fcp_socket_msg_header), sizeof(struct firmware_payload)
\* without the firmware bytes, and the largest payload_length accepted.
HeaderSize == 4
FirmwarePrefixSize == 56
MAX_PAYLOAD_LENGTH == 16777216

FLASH_BLOCK_SIZE == 4096
FCP_FLASH_WRITE_MAX == 1012
ESP_FLASH_BLOCK_SIZE == 1024
\* client.size after the first allocation
InitialBufferSize == 4096
\* smallest app firmware handle_app_firmware_update takes
MinAppFirmwareSize == 65536

ProgressFrame(percent) == [type |-> "PROGRESS", val |-> percent]
ErrorFrame(code) == [type |-> "ERROR", val |-> code]
SuccessFrame == [type |-> "SUCCESS", val |-> 0]

\* No firmware_payload in the request.
NoFw == [size |-> 0, hash_ok |-> FALSE, id_ok |-> FALSE]

Request(msg_type, fw) ==
  [magic_ok |-> TRUE, msg_type |-> msg_type,
   payload_length |-> IF fw = NoFw THEN 0 ELSE FirmwarePrefixSize + fw.size,
   fw |-> fw]

AppFirmwares ==
  { [size |-> MinAppFirmwareSize - 1, hash_ok |-> TRUE, id_ok |-> TRUE],
    [size |-> MinAppFirmwareSize, hash_ok |-> TRUE, id_ok |-> TRUE],
    [size |-> MinAppFirmwareSize, hash_ok |-> FALSE, id_ok |-> TRUE],
    [size |-> MinAppFirmwareSize, hash_ok |-> TRUE, id_ok |-> FALSE] }

EspFirmwares ==
  { [size |-> 2 * ESP_FLASH_BLOCK_SIZE, hash_ok |-> TRUE, id_ok |-> TRUE],
    [size |-> 2 * ESP_FLASH_BLOCK_SIZE, hash_ok |-> FALSE, id_ok |-> TRUE],
    [size |-> 2 * ESP_FLASH_BLOCK_SIZE, hash_ok |-> TRUE, id_ok |-> FALSE] }

\* The requests a client sends: every message type, a type the server does
\* not know, a wrong magic and an over-long payload_length.
Requests ==
  { Request(t, NoFw) : t \in {"REBOOT", "CONFIG_ERASE", "APP_FIRMWARE_ERASE",
                              "UNKNOWN"} }
  \cup { Request("APP_FIRMWARE_UPDATE", fw) : fw \in AppFirmwares }
  \cup { Request("ESP_FIRMWARE_UPDATE", fw) : fw \in EspFirmwares }
  \cup { [Request("REBOOT", NoFw) EXCEPT !.magic_ok = FALSE],
         [Request("REBOOT", NoFw) EXCEPT !.payload_length = MAX_PAYLOAD_LENGTH + 1] }

\* A request travels as the two halves of its header and, if it has one, its
\* payload; a read returns whole pieces.
Pieces(req) ==
  <<[req |-> req, part |-> "h1", len |-> HeaderSize \div 2],
    [req |-> req, part |-> "h2", len |-> HeaderSize - HeaderSize \div 2]>>
  \o (IF req.payload_length > 0 /\ req.payload_length <= MAX_PAYLOAD_LENGTH
      THEN <<[req |-> req, part |-> "pl", len |-> req.payload_length]>>
      ELSE <<>>)

RECURSIVE Bytes(_)
Bytes(pieces) ==
  IF pieces = <<>> THEN 0 ELSE Head(pieces).len + Bytes(Tail(pieces))

\* ------------------------------------------------------------ flash layout

\* What the device answers to FLASH/info and FLASH/segment-info: the segment
\* names and sizes by index.
FlashLayouts ==
  { ZeroBased(<<[name |-> "App_Gold", size |-> 65536],
                [name |-> "App_Upgrade", size |-> 2 * MinAppFirmwareSize],
                [name |-> "App_Settings", size |-> 2 * FLASH_BLOCK_SIZE],
                [name |-> "App_Disk", size |-> FLASH_BLOCK_SIZE],
                [name |-> "App_Env", size |-> FLASH_BLOCK_SIZE]>>),
    ZeroBased(<<[name |-> "App_Gold", size |-> 65536],
                [name |-> "App_Upgrade", size |-> 2 * MinAppFirmwareSize],
                [name |-> "App_Disk", size |-> FLASH_BLOCK_SIZE],
                [name |-> "App_Env", size |-> FLASH_BLOCK_SIZE]>>),
    ZeroBased(<<[name |-> "App_Gold", size |-> 65536],
                [name |-> "App_Upgrade", size |-> 2 * MinAppFirmwareSize],
                [name |-> "App_Settings", size |-> 2 * FLASH_BLOCK_SIZE],
                [name |-> "App_Disk", size |-> FLASH_BLOCK_SIZE]>>),
    ZeroBased(<<[name |-> "App_Gold", size |-> 65536],
                [name |-> "App_Settings", size |-> 2 * FLASH_BLOCK_SIZE],
                [name |-> "App_Disk", size |-> FLASH_BLOCK_SIZE],
                [name |-> "App_Env", size |-> FLASH_BLOCK_SIZE]>>) }

\* The segment table of a device that has every named segment.
FullFlashLayout == CHOOSE l \in FlashLayouts : Cardinality(DOMAIN l) = 5

\* The file-static flash variables of fcp-socket.c before the first lookup.
NoFlashInfo ==
  [have_flash_info |-> FALSE,
   upgrade_segment_num |-> -1, upgrade_segment_size |-> -1,
   settings_segment_num |-> -1, settings_segment_size |-> -1,
   disk_segment_num |-> -1, disk_segment_size |-> -1,
   env_segment_num |-> -1, env_segment_size |-> -1]

RECURSIVE SegmentLoop(_, _, _, _)
\* The loop of get_segment_nums from segment i on; failAt is the index whose
\* FLASH/segment-info is rejected (-1: none).  [ret, fl]
SegmentLoop(fl, layout, i, failAt) ==
  IF i >= Cardinality(DOMAIN layout) THEN [ret |-> 0, fl |-> fl]
  ELSE IF i = failAt THEN [ret |-> -1, fl |-> fl]
  ELSE
    LET name == layout[i].name
        size == layout[i].size
        fl1 == CASE name = "App_Upgrade" ->
                      [fl EXCEPT !.upgrade_segment_num = i,
                                 !.upgrade_segment_size = size]
                 [] name = "App_Settings" ->
                      [fl EXCEPT !.settings_segment_num = i,
                                 !.settings_segment_size = size]
                 [] name = "App_Disk" ->
                      [fl EXCEPT !.disk_segment_num = i, !.disk_segment_size = size]
                 [] name = "App_Env" ->
                      [fl EXCEPT !.env_segment_num = i, !.env_segment_size = size]
                 [] OTHER -> fl
    IN  SegmentLoop(fl1, layout, i + 1, failAt)

\* The FLASH/info and FLASH/segment-info commands of a get_segment_nums that
\* queries the device: the loop stops at the rejected one.
SegmentQueries(layout, failAt) ==
  LET count == Cardinality(DOMAIN layout)
      asked == IF failAt = -2 \/ count < 1 \/ count > 15 THEN 0
               ELSE IF failAt \in 0 .. count - 1 THEN failAt + 1
               ELSE count
  IN  <<[op |-> "FLASH_INFO", num |-> 0, arg |-> 0, ok |-> failAt # -2]>>
      \o [k \in 1 .. asked |->
            [op |-> "FLASH_SEGMENT_INFO", num |-> k - 1, arg |-> 0,
             ok |-> k - 1 # failAt]]

\* get_segment_nums; failAt = -2: FLASH/info itself is rejected.
\* [ret, fl, cmds]
get_segment_nums(fl, layout, failAt) ==
  IF fl.have_flash_info THEN [ret |-> 0, fl |-> fl, cmds |-> <<>>]
  ELSE
    LET cmds == SegmentQueries(layout, failAt)
        l == SegmentLoop(fl, layout, 0, failAt)
    IN  IF failAt = -2 THEN [ret |-> -1, fl |-> fl, cmds |-> cmds]
        ELSE IF Cardinality(DOMAIN layout) < 1 \/ Cardinality(DOMAIN layout) > 15
        THEN [ret |-> -1, fl |-> fl, cmds |-> cmds]
        ELSE IF l.ret # 0 THEN [ret |-> l.ret, fl |-> l.fl, cmds |-> cmds]
        ELSE IF l.fl.upgrade_segment_num = 0 \/ l.fl.settings_segment_num = 0
                \/ l.fl.disk_segment_num = 0 \/ l.fl.env_segment_num = 0
        THEN [ret |-> -1, fl |-> l.fl, cmds |-> cmds]
        ELSE [ret |-> 0, fl |-> [l.fl EXCEPT !.have_flash_info = TRUE],
              cmds |-> cmds]

\* ------------------------------------------------------- request handlers

\* What a handler hands back: its return value, the frames it sent to the
\* client, the device commands it issued, how often it drained the accept
\* queue, and the file-static state it leaves.  at[j] is the number of
\* device commands issued when frame j was sent; a handler that sends only
\* as it returns has issued all of them by then.
Outcome(ret, frames, cmds, drains, fl, last_progress) ==
  [ret |-> ret, frames |-> frames, cmds |-> cmds, drains |-> drains,
   fl |-> fl, last_progress |-> last_progress,
   at |-> [j \in 1 .. Len(frames) |-> Len(cmds)]]

FlashCmd(op, segment_num, arg, ok) ==
  [op |-> op, num |-> segment_num, arg |-> arg, ok |-> ok]

\* The handler's call of drain_pending_connections, in its place among the
\* device commands.
DrainCall == [op |-> "DRAIN", num |-> 0, arg |-> 0, ok |-> TRUE]

\* A handler's outcome after the device queries of its get_segment_nums.
AfterQueries(g, h) ==
  [h EXCEPT !.cmds = g.cmds \o @,
            !.at = [j \in 1 .. Len(h.at) |-> Len(g.cmds) + h.at[j]]]

\* A loop that takes any answer of the device for the end of the erase.
EraseComplete_Any(ret) == ret >= 0

\* `if (ret == 255) break;`
EraseComplete(ret) == ret = 255

RECURSIVE ErasePollLoop(_, _, _, _)
\* The polling loop of erase_flash_segment; polls are the values
\* fcp_flash_erase_progress returns, in order, the last one 255 or negative.
ErasePollLoop(st, segment_num, num_blocks, polls) ==
  LET ret == Head(polls)
      cmd == FlashCmd("FLASH_ERASE_PROGRESS", segment_num, ret, ret >= 0)
  IN  IF ret < 0
      THEN [st EXCEPT !.ret = FCP_SOCKET_ERR_READ, !.cmds = Append(@, cmd)]
      ELSE IF EraseComplete(ret)
      THEN [st EXCEPT !.cmds = Append(@, cmd),
                      !.frames = IF st.last_progress # 100
                                 THEN Append(@, ProgressFrame(100)) ELSE @,
                      !.at = IF st.last_progress # 100
                             THEN Append(@, Len(st.cmds) + 1) ELSE @]
      ELSE
        LET progress == (ret * 100) \div num_blocks
        IN  ErasePollLoop(
              [st EXCEPT !.cmds = @ \o <<cmd, DrainCall>>,
                         !.frames = IF progress # st.last_progress
                                    THEN Append(@, ProgressFrame(progress)) ELSE @,
                         !.at = IF progress # st.last_progress
                                THEN Append(@, Len(st.cmds) + 1) ELSE @,
                         !.last_progress = progress,
                         !.drains = @ + 1],
              segment_num, num_blocks, Tail(polls))

\* erase_flash_segment; last_progress is its function-static variable.
erase_flash_segment(fl, last_progress, segment_num, num_blocks, eraseOk, polls) ==
  IF segment_num < 1 \/ segment_num > 15
  THEN Outcome(FCP_SOCKET_ERR_READ, <<>>, <<>>, 0, fl, last_progress)
  ELSE IF num_blocks < 1 \/ num_blocks > 255
  THEN Outcome(FCP_SOCKET_ERR_READ, <<>>, <<>>, 0, fl, last_progress)
  ELSE IF ~eraseOk
  THEN Outcome(FCP_SOCKET_ERR_WRITE, <<>>,
               <<FlashCmd("FLASH_ERASE", segment_num, 0, FALSE)>>, 0, fl,
               last_progress)
  ELSE ErasePollLoop(
         Outcome(0, <<>>, <<FlashCmd("FLASH_ERASE", segment_num, 0, TRUE)>>, 0,
                 fl, last_progress),
         segment_num, num_blocks, polls)

\* erase_config
erase_config(fl, last_progress, layout, failAt, eraseOk, polls) ==
  LET g == get_segment_nums(fl, layout, failAt)
  IN  IF g.ret < 0
      THEN Outcome(FCP_SOCKET_ERR_READ, <<>>, g.cmds, 0, g.fl, last_progress)
      ELSE AfterQueries(g,
             erase_flash_segment(g.fl, last_progress, g.fl.settings_segment_num,
                                 g.fl.settings_segment_size \div FLASH_BLOCK_SIZE,
                                 eraseOk, polls))

\* erase_app_firmware
erase_app_firmware(fl, last_progress, layout, failAt, eraseOk, polls) ==
  LET g == get_segment_nums(fl, layout, failAt)
  IN  IF g.ret < 0
      THEN Outcome(FCP_SOCKET_ERR_READ, <<>>, g.cmds, 0, g.fl, last_progress)
      ELSE AfterQueries(g,
             erase_flash_segment(g.fl, last_progress, g.fl.upgrade_segment_num,
                                 g.fl.upgrade_segment_size \div FLASH_BLOCK_SIZE,
                                 eraseOk, polls))

\* The write loop of handle_app_firmware_update with its closing PROGRESS
\* frame; writeFailAt is the offset whose FLASH/write is rejected (-1: none).
\* Iteration k writes at offset (k - 1) * FCP_FLASH_WRITE_MAX; the progress
\* value never decreases, so the frames sent are its distinct values in order.
\* A loop that hands every call a full chunk.
ChunkSize_Whole(size, i) == FCP_FLASH_WRITE_MAX

\* handle_app_firmware_update: "size = payload->size - i; if (size >
\* FCP_FLASH_WRITE_MAX) size = FCP_FLASH_WRITE_MAX".
ChunkSize(size, i) ==
  IF size - i > FCP_FLASH_WRITE_MAX THEN FCP_FLASH_WRITE_MAX ELSE size - i

AppWriteLoop(size, segment_num, writeFailAt) ==
  LET rounds == (size + FCP_FLASH_WRITE_MAX - 1) \div FCP_FLASH_WRITE_MAX
      OffsetOf(k) == (k - 1) * FCP_FLASH_WRITE_MAX
      refused == segment_num < 1 \/ segment_num > 16
      failing == { k \in 1 .. rounds : OffsetOf(k) = writeFailAt }
      issued == IF refused THEN 0
                ELSE IF failing = {} THEN rounds
                ELSE CHOOSE k \in failing : TRUE
      done == IF refused THEN 0
              ELSE IF failing = {} THEN rounds ELSE issued - 1
      shown == { (OffsetOf(k) * 100) \div size : k \in 1 .. done }
      last_progress == IF done = 0 THEN -1
                       ELSE (OffsetOf(done) * 100) \div size
      ascending == SelectSeq([j \in 1 .. 100 |-> j - 1], LAMBDA v : v \in shown)
      \* the first round whose progress value is v: the least k with
      \* OffsetOf(k) * 100 >= v * size
      FirstRound(v) == (v * size + 100 * FCP_FLASH_WRITE_MAX - 1)
                         \div (100 * FCP_FLASH_WRITE_MAX) + 1
      completed == ~refused /\ failing = {}
      Write(k) == [op |-> "FLASH_WRITE", num |-> segment_num,
                   arg |-> OffsetOf(k),
                   size |-> ChunkSize(size, OffsetOf(k)),
                   from |-> OffsetOf(k),
                   ok |-> k <= done]
  IN  [ret |-> IF completed THEN 0 ELSE FCP_SOCKET_ERR_WRITE,
       cmds |-> [j \in 1 .. issued + done |->
                   IF j % 2 = 0 THEN DrainCall ELSE Write((j + 1) \div 2)],
       frames |-> [j \in 1 .. Len(ascending) |-> ProgressFrame(ascending[j])]
                  \o (IF completed /\ last_progress # 100
                      THEN <<ProgressFrame(100)>> ELSE <<>>),
       at |-> [j \in 1 .. Len(ascending) |-> 2 * FirstRound(ascending[j]) - 1]
              \o (IF completed /\ last_progress # 100
                  THEN <<issued + done>> ELSE <<>>),
       drains |-> done]

\* A check that accepts every digest.
verify_sha256_Always(fw) == TRUE

\* verify_sha256: whether the SHA-256 of the payload bytes is the digest in
\* the payload prefix.
verify_sha256(fw) == fw.hash_ok

\* Whether the payload's VID and PID are the device's.
SameUsbId(fw) == fw.id_ok

\* A size check without an upper limit.
ExceedsUnsigned_Never(size, limit) == FALSE

\* `payload->size > upgrade_segment_size`: the u32 size against the int
\* segment size, compared as unsigned; a negative limit converts to a value
\* above every payload size.
ExceedsUnsigned(size, limit) == limit >= 0 /\ size > limit

\* handle_app_firmware_update
handle_app_firmware_update(fl, last_progress, layout, failAt, fw, writeFailAt) ==
  LET g == get_segment_nums(fl, layout, failAt)
      rejected(code) ==
        Outcome(code, <<ErrorFrame(code)>>, g.cmds, 0, g.fl, last_progress)
  IN  IF g.ret < 0
      THEN Outcome(FCP_SOCKET_ERR_READ, <<>>, g.cmds, 0, g.fl, last_progress)
      ELSE IF fw.size < MinAppFirmwareSize
      THEN rejected(FCP_SOCKET_ERR_INVALID_LENGTH)
      ELSE IF ExceedsUnsigned(fw.size, g.fl.upgrade_segment_size)
      THEN rejected(FCP_SOCKET_ERR_INVALID_LENGTH)
      ELSE IF ~verify_sha256(fw) THEN rejected(FCP_SOCKET_ERR_INVALID_HASH)
      ELSE IF ~SameUsbId(fw) THEN rejected(FCP_SOCKET_ERR_INVALID_USB_ID)
      ELSE
        LET w == AppWriteLoop(fw.size, g.fl.upgrade_segment_num, writeFailAt)
        IN  AfterQueries(g, [Outcome(w.ret, w.frames, w.cmds, w.drains, g.fl,
                                     last_progress) EXCEPT !.at = w.at])

\* ---- ESP firmware update

\* How the device and its ESP behave during one ESP update (p):
\*   initial      the ESP state when the update starts
\*   firstOk      whether the first state read is accepted; if not, esp_state
\*                stays uninitialised and holds `garbage`
\*   stuck        a state the ESP never reaches when asked to ("none": none)
\*   lag          state polls that still show the old state after a change
\*   waitFailAt   which wait_for_esp_notification call sees no DFU-change
\*                notification before its time is up (-1: none)
\*   notifyTries  the read of DFU_NOTIFY that first returns the awaited value
\*   bootOk       whether the boot-mode DATA/write is accepted
\*   startOk      whether AUX-DFU/start is accepted
\*   writeFailAt  index of the AUX-DFU/write that is rejected (-1: none)
EspStates == {"zero", "off", "dfu", "normal"}

GoodEsp ==
  [initial |-> "normal", firstOk |-> TRUE, garbage |-> "normal",
   stuck |-> "none", lag |-> 0, waitFailAt |-> -1, notifyTries |-> 1,
   bootOk |-> TRUE, startOk |-> TRUE, writeFailAt |-> -1]

EspCmd(op, arg, ok) == [op |-> op, num |-> 0, arg |-> arg, ok |-> ok]

\* The test callers in esp-dfu.c apply to a helper's return value.
Failed(err) == err < 0

\* The handler has returned err.
EspExit(st, err) == [st EXCEPT !.done = TRUE, !.ret = err]

\* fcp_esp_set_boot_mode: DATA/write of the mode, then DATA/notify.
fcp_esp_set_boot_mode(st, p, mode) ==
  IF ~p.bootOk
  THEN [st EXCEPT !.cmds = Append(@, EspCmd("BOOT_MODE", mode, FALSE)),
                  !.err = FCP_SOCKET_ERR_FCP]
  ELSE [st EXCEPT !.cmds = @ \o <<EspCmd("BOOT_MODE", mode, TRUE),
                                  EspCmd("BOOT_NOTIFY", mode, TRUE)>>,
                  !.err = 0,
                  !.prev = IF p.stuck = mode THEN @ ELSE st.esp,
                  !.esp = IF p.stuck = mode THEN @ ELSE mode,
                  !.polled = 0]

\* config.notify_client.dfu_change: the DFU-change bit of a notification
\* word, a bit no control's notify_client has.
dfu_change == 32

\* What select and snd_hwdep_read deliver during a wait: a notification
\* word, or nothing until the time is up.
WordArrives(word) == [ev |-> "word", word |-> word]
TimeIsUp == [ev |-> "timeout", word |-> 0]

\* What arrives during the k-th wait: a word without the DFU-change bit (a
\* control of the device has changed), then the DFU-change word; the wait
\* p.waitFailAt sees the first and then nothing more.
WaitEvents(p, k) ==
  IF k = p.waitFailAt THEN <<WordArrives(4), TimeIsUp>>
  ELSE <<WordArrives(4), WordArrives(dfu_change)>>

\* if (notification & config.notify_client.dfu_change) return 0;
HasDfuChange(notification) == BitAnd(notification, dfu_change) # 0

RECURSIVE WaitLoop(_)
\* The loop of wait_for_esp_notification over what arrives.
WaitLoop(arrivals) ==
  IF arrivals = <<>> THEN FCP_SOCKET_ERR_TIMEOUT
  ELSE CASE Head(arrivals).ev = "timeout" -> FCP_SOCKET_ERR_TIMEOUT
         [] Head(arrivals).ev = "error" -> FCP_SOCKET_ERR_FCP
         [] HasDfuChange(Head(arrivals).word) -> 0
         [] OTHER -> WaitLoop(Tail(arrivals))

RECURSIVE WaitWords(_)
\* The words wait_for_esp_notification reads with snd_hwdep_read before it
\* returns; each is held in the local `notification` and tested for the
\* DFU-change bit only.
WaitWords(arrivals) ==
  IF arrivals = <<>> \/ Head(arrivals).ev # "word" THEN <<>>
  ELSE IF HasDfuChange(Head(arrivals).word) THEN <<Head(arrivals).word>>
  ELSE <<Head(arrivals).word>> \o WaitWords(Tail(arrivals))

\* wait_for_esp_notification
wait_for_esp_notification(st, p) ==
  LET err == WaitLoop(WaitEvents(p, st.waits + 1))
  IN  [st EXCEPT !.waits = @ + 1, !.err = err,
                 !.cmds = Append(@, [op |-> "WAIT", num |-> 0,
                                     arg |-> st.waits + 1, ok |-> err = 0,
                                     words |-> WaitWords(
                                       WaitEvents(p, st.waits + 1))])]

RECURSIVE CheckStateLoop(_, _, _, _)
\* The poll loop of check_esp_state from poll i on.
CheckStateLoop(st, p, expected_state, i) ==
  IF i >= 5 THEN [st EXCEPT !.err = FCP_SOCKET_ERR_INVALID_STATE]
  ELSE
    LET esp_state == IF st.polled < p.lag THEN st.prev ELSE st.esp
        read == [st EXCEPT !.cmds = Append(@, EspCmd("STATE_READ", esp_state, TRUE)),
                           !.polled = @ + 1]
    IN  IF esp_state = expected_state THEN [read EXCEPT !.err = 0]
        ELSE CheckStateLoop(read, p, expected_state, i + 1)

\* check_esp_state
check_esp_state(st, p, expected_state) == CheckStateLoop(st, p, expected_state, 0)

\* set_esp_state after its wait_for_esp_notification has returned w.err.
SetStateNotified(w, p, target_state) ==
  IF Failed(w.err) THEN w ELSE check_esp_state(w, p, target_state)

\* set_esp_state after its fcp_esp_set_boot_mode has returned b.err.
SetStateBooted(b, p, target_state) ==
  IF Failed(b.err) THEN b
  ELSE SetStateNotified(wait_for_esp_notification(b, p), p, target_state)

\* set_esp_state
set_esp_state(st, p, target_state) ==
  SetStateBooted(fcp_esp_set_boot_mode(st, p, target_state), p, target_state)

RECURSIVE DfuNotifyLoop(_, _, _, _)
RECURSIVE DfuNotifyRead(_, _, _, _)
\* The loop of wait_for_esp_dfu_notify from try i on.
DfuNotifyLoop(st, p, expected_notify, i) ==
  IF i > 5 THEN [st EXCEPT !.err = FCP_SOCKET_ERR_TIMEOUT]
  ELSE DfuNotifyRead(wait_for_esp_notification(st, p), p, expected_notify, i)

\* Try i of wait_for_esp_dfu_notify after its wait has returned w.err: read
\* and clear the DFU notification; the device hands the awaited value over
\* on its p.notifyTries-th read and "clear" before.
DfuNotifyRead(w, p, expected_notify, i) ==
  LET dfu_notify == IF i >= p.notifyTries THEN expected_notify ELSE "clear"
      r == [w EXCEPT !.cmds = @ \o <<EspCmd("DFU_NOTIFY_READ", dfu_notify, TRUE),
                                     EspCmd("DFU_NOTIFY_CLEAR", "clear", TRUE)>>]
  IN  IF Failed(w.err) THEN w
      ELSE IF dfu_notify = expected_notify THEN [r EXCEPT !.err = 0]
      ELSE DfuNotifyLoop(r, p, expected_notify, i + 1)

\* wait_for_esp_dfu_notify
wait_for_esp_dfu_notify(st, p, expected_notify) ==
  DfuNotifyLoop(st, p, expected_notify, 1)

EspBlocks(size) == (size + ESP_FLASH_BLOCK_SIZE - 1) \div ESP_FLASH_BLOCK_SIZE

RECURSIVE EspBlockLoop(_, _, _, _)
RECURSIVE EspBlockWritten(_, _, _, _)
\* The block loop of handle_esp_firmware_update from block k on.
EspBlockLoop(st, p, size, k) ==
  LET offset == k * ESP_FLASH_BLOCK_SIZE
      block_size == IF size - offset > ESP_FLASH_BLOCK_SIZE
                    THEN ESP_FLASH_BLOCK_SIZE ELSE size - offset
      ok == k # p.writeFailAt
      wr == [st EXCEPT !.cmds = Append(@, [op |-> "ESP_DFU_WRITE", num |-> k,
                                           arg |-> offset, size |-> block_size,
                                           ok |-> ok])]
  IN  IF offset >= size THEN st
      ELSE IF ~ok THEN EspExit(wr, FCP_SOCKET_ERR_WRITE)
      ELSE EspBlockWritten(wait_for_esp_dfu_notify(wr, p, "next_block"), p,
                           size, k)

\* Block k after its write and the wait for the next-block notification n:
\* the progress report.
EspBlockWritten(n, p, size, k) ==
  LET offset == k * ESP_FLASH_BLOCK_SIZE
      block_size == IF size - offset > ESP_FLASH_BLOCK_SIZE
                    THEN ESP_FLASH_BLOCK_SIZE ELSE size - offset
      progress == ((offset + block_size) * 100) \div size
  IN  IF Failed(n.err) THEN EspExit(n, n.err)
      ELSE EspBlockLoop(
             [n EXCEPT !.frames = IF progress # n.lp
                                  THEN Append(@, ProgressFrame(progress)) ELSE @,
                       !.at = IF progress # n.lp THEN Append(@, Len(n.cmds))
                              ELSE @,
                       !.lp = progress],
             p, size, k + 1)

\* `if (err < 0) return err;` after a helper has returned r.err.
ReturnIfFailed(r) == IF Failed(r.err) THEN EspExit(r, r.err) ELSE r

\* The first state read of handle_esp_firmware_update and what it leads to:
\* fcp_data_read leaves esp_state unassigned when it fails.
EspFirstState(fw, p) ==
  LET s0 == [done |-> FALSE, ret |-> 0, err |-> 0,
             cmds |-> <<EspCmd("STATE_READ", p.initial, p.firstOk)>>,
             frames |-> <<ProgressFrame(0)>>, at |-> <<0>>,
             esp |-> p.initial, prev |-> p.initial, polled |-> 0,
             waits |-> 0, lp |-> -1]
      esp_state == IF p.firstOk THEN p.initial ELSE p.garbage
      first_err == IF p.firstOk THEN 0 ELSE FCP_SOCKET_ERR_FCP
  IN  IF Failed(first_err) THEN EspExit(s0, first_err)
      ELSE IF esp_state = "zero" THEN EspExit(s0, FCP_SOCKET_ERR_NOT_LEAPFROG)
      ELSE IF esp_state = "normal"
      THEN ReturnIfFailed(set_esp_state(s0, p, "off"))
      ELSE IF esp_state # "off" THEN EspExit(s0, FCP_SOCKET_ERR_INVALID_STATE)
      ELSE s0

\* fcp_esp_dfu_start and the test of its result.
EspDfuStart(st, fw, p) ==
  LET started == [st EXCEPT !.cmds = Append(@, EspCmd("ESP_DFU_START", fw.size,
                                                      p.startOk)),
                            !.prev = IF p.startOk /\ p.stuck # "dfu"
                                     THEN st.esp ELSE @,
                            !.esp = IF p.startOk /\ p.stuck # "dfu"
                                    THEN "dfu" ELSE @,
                            !.polled = 0]
  IN  IF p.startOk THEN started ELSE EspExit(started, FCP_SOCKET_ERR_FCP)

\* The closing fcp_esp_dfu_write of an empty block.
EspFinalWrite(st, fw, p) ==
  LET lastOk == p.writeFailAt # EspBlocks(fw.size)
      wr == [st EXCEPT !.cmds = Append(@, [op |-> "ESP_DFU_WRITE",
                                           num |-> EspBlocks(fw.size),
                                           arg |-> fw.size, size |-> 0,
                                           ok |-> lastOk])]
  IN  IF lastOk THEN wr ELSE EspExit(wr, FCP_SOCKET_ERR_WRITE)

\* A handler that reports 100 at the end whatever it reported last.
EspFinish_Always(st) ==
  [st EXCEPT !.done = TRUE, !.ret = 0,
             !.frames = Append(@, ProgressFrame(100)),
             !.at = Append(@, Len(st.cmds))]

\* The final progress report and `return 0`.
EspFinish(st) ==
  [st EXCEPT !.done = TRUE, !.ret = 0,
             !.frames = IF st.lp # 100 THEN Append(@, ProgressFrame(100))
                        ELSE @,
             !.at = IF st.lp # 100 THEN Append(@, Len(st.cmds)) ELSE @]

RECURSIVE EspSteps(_, _, _, _)
\* handle_esp_firmware_update from its step-th call of the device on, until
\* it returns.
EspSteps(st, fw, p, step) ==
  IF st.done THEN st
  ELSE CASE step = 1 -> EspSteps(EspDfuStart(st, fw, p), fw, p, 2)
         [] step = 2 ->
              EspSteps(ReturnIfFailed(wait_for_esp_notification(st, p)),
                       fw, p, 3)
         [] step = 3 ->
              EspSteps(ReturnIfFailed(check_esp_state(st, p, "dfu")), fw, p, 4)
         [] step = 4 ->
              EspSteps(ReturnIfFailed(
                         wait_for_esp_dfu_notify(st, p, "next_block")),
                       fw, p, 5)
         [] step = 5 -> EspSteps(EspBlockLoop(st, p, fw.size, 0), fw, p, 6)
         [] step = 6 -> EspSteps(EspFinalWrite(st, fw, p), fw, p, 7)
         [] step = 7 ->
              EspSteps(ReturnIfFailed(wait_for_esp_dfu_notify(st, p, "finish")),
                       fw, p, 8)
         [] step = 8 ->
              EspSteps(ReturnIfFailed(set_esp_state(st, p, "off")), fw, p, 9)
         [] step = 9 ->
              EspSteps(ReturnIfFailed(set_esp_state(st, p, "normal")),
                       fw, p, 10)
         [] OTHER -> EspFinish(st)

\* handle_esp_firmware_update once the payload is accepted and PROGRESS 0
\* sent: the dialogue with the device and the ESP.
EspDialogue(fw, p) == EspSteps(EspFirstState(fw, p), fw, p, 1)

\* handle_esp_firmware_update
handle_esp_firmware_update(fl, last_progress, fw, configOk, p) ==
  IF ~configOk
  THEN Outcome(FCP_SOCKET_ERR_CONFIG, <<>>, <<>>, 0, fl, last_progress)
  ELSE IF ~SameUsbId(fw)
  THEN Outcome(FCP_SOCKET_ERR_INVALID_USB_ID, <<>>, <<>>, 0, fl, last_progress)
  ELSE IF ~verify_sha256(fw)
  THEN Outcome(FCP_SOCKET_ERR_INVALID_HASH, <<>>, <<>>, 0, fl, last_progress)
  ELSE LET e == EspDialogue(fw, p)
       IN  [Outcome(e.ret, e.frames, e.cmds, 0, fl, last_progress)
              EXCEPT !.at = e.at]

\* The frame handle_client_command ends a handled request with.
TerminalFrame(ret) == IF ret # 0 THEN ErrorFrame(ret) ELSE SuccessFrame

\* What the device does during one request (d): failAt for get_segment_nums,
\* eraseOk and polls for erase_flash_segment, writeFailAt for the FLASH/write
\* loop, rebootOk for INIT/reboot, configOk and esp for the ESP update; and
\* what the client does: closeAt is the number of frames it takes before it
\* closes its connection (-1: it stays).
NoDeviceInput ==
  [failAt |-> -1, eraseOk |-> TRUE, polls |-> <<255>>, writeFailAt |-> -1,
   rebootOk |-> TRUE, configOk |-> TRUE, esp |-> GoodEsp, closeAt |-> -1,
   heap |-> NoFw]

\* Whether send() fails for one of the frames: the client has closed its
\* connection after taking closeAt of them.
ClientLeft(frames, closeAt) == closeAt >= 0 /\ closeAt < Len(frames)

\* The frames that reach the client.
Delivered(frames, closeAt) ==
  IF ClientLeft(frames, closeAt) THEN SubSeq(frames, 1, closeAt) ELSE frames

\* A send_response whose failure makes the handler return at once.
send_response_Returns(h, closeAt) ==
  IF ClientLeft(h.frames, closeAt)
  THEN [h EXCEPT !.frames = SubSeq(@, 1, closeAt + 1),
                 !.at = SubSeq(@, 1, closeAt + 1),
                 !.cmds = SubSeq(@, 1, h.at[closeAt + 1])]
  ELSE h

\* send_response as its callers see it: a failed send() is logged and the
\* function returns nothing, so the handler h goes on as it does with a
\* connected client.
send_response(h, closeAt) == h

\* handle_client_command
handle_client_command(req, fl, last_progress, layout, d) ==
  LET t == req.msg_type
      h == CASE t = "REBOOT" ->
                  Outcome(IF d.rebootOk THEN 0 ELSE -5, <<>>,
                          <<[op |-> "REBOOT", num |-> 0, arg |-> 0,
                             ok |-> d.rebootOk]>>,
                          0, fl, last_progress)
             [] t = "CONFIG_ERASE" ->
                  erase_config(fl, last_progress, layout, d.failAt, d.eraseOk,
                               d.polls)
             [] t = "APP_FIRMWARE_ERASE" ->
                  erase_app_firmware(fl, last_progress, layout, d.failAt,
                                     d.eraseOk, d.polls)
             [] t = "APP_FIRMWARE_UPDATE" ->
                  handle_app_firmware_update(fl, last_progress, layout, d.failAt,
                                             req.fw, d.writeFailAt)
             [] t = "ESP_FIRMWARE_UPDATE" ->
                  handle_esp_firmware_update(fl, last_progress, req.fw,
                                             d.configOk, d.esp)
             [] OTHER ->
                  Outcome(FCP_SOCKET_ERR_INVALID_COMMAND, <<>>, <<>>, 0, fl,
                          last_progress)
  IN  IF t \in {"REBOOT", "CONFIG_ERASE", "APP_FIRMWARE_ERASE",
                "APP_FIRMWARE_UPDATE", "ESP_FIRMWARE_UPDATE"}
      THEN send_response([h EXCEPT !.frames = Append(@, TerminalFrame(h.ret)),
                                   !.at = Append(@, Len(h.cmds))],
                         d.closeAt)
      ELSE [h EXCEPT !.frames = <<ErrorFrame(FCP_SOCKET_ERR_INVALID_COMMAND)>>,
                     !.at = <<0>>]

\* ------------------------------------------------------------ socket server

\* client_state with no client: fd -1, no buffer.  mem is what the buffer
\* holds behind the header: the firmware payload last read into it.
NoClient ==
  [fd |-> -1, buf |-> <<>>, total_size |-> 0, size |-> 0, mem |-> NoFw]

\* The firmware_payload a handler finds at header + 1: the payload that came
\* with the request if it has one, else what the buffer held there before.
PayloadAt(header, mem) == IF header.payload_length > 0 THEN header.fw ELSE mem

\* The header at the front of the buffer.  Bytes that are not the two header
\* halves of one request do not carry the request magic.
HeaderOf(buf) ==
  IF Len(buf) >= 2 /\ buf[1].part = "h1" /\ buf[2].part = "h2"
     /\ buf[1].req = buf[2].req
  THEN buf[1].req
  ELSE [Request("UNKNOWN", NoFw) EXCEPT !.magic_ok = FALSE]

\* Whether the bytes read so far hold a whole, well-formed message, so that
\* process_client_data passes it to handle_client_command.
MessageComplete(cl, taken) ==
  LET buf == cl.buf \o taken
      header == HeaderOf(buf)
  IN  /\ taken # <<>>
      /\ Bytes(buf) >= HeaderSize
      /\ cl.total_size = 0 =>
            (header.magic_ok /\ header.payload_length <= MAX_PAYLOAD_LENGTH)
      /\ Bytes(buf) >= (IF cl.total_size = 0
                        THEN HeaderSize + header.payload_length
                        ELSE cl.total_size)

\* A test that takes the header alone for the whole message.
HasWholeMessage_HeaderOnly(bytes_read, total_size) == bytes_read >= HeaderSize

\* `if (client.bytes_read >= client.total_size)`
HasWholeMessage(bytes_read, total_size) == bytes_read >= total_size

\* process_client_data once read() has returned the pieces `taken` (none:
\* end of file).  [result, client, frames, dispatched, h]
process_client_data(cl, taken, fl, last_progress, layout, d) ==
  LET size == IF cl.size = 0 THEN InitialBufferSize ELSE cl.size
      buf == cl.buf \o taken
      bytes_read == Bytes(buf)
      header == HeaderOf(buf)
      idle == Outcome(0, <<>>, <<>>, 0, fl, last_progress)
      total_size == IF cl.total_size = 0 THEN HeaderSize + header.payload_length
                    ELSE cl.total_size
      grown == IF total_size > size THEN total_size ELSE size
      mem == IF cl.size = 0 THEN d.heap ELSE cl.mem
  IN  IF taken = <<>>
      THEN [result |-> -1, client |-> [cl EXCEPT !.size = size, !.mem = mem],
            frames |-> <<>>, dispatched |-> FALSE, h |-> idle]
      ELSE IF bytes_read < HeaderSize
      THEN [result |-> 0, client |-> [cl EXCEPT !.size = size, !.buf = buf,
                                  !.mem = mem],
            frames |-> <<>>, dispatched |-> FALSE, h |-> idle]
      ELSE IF cl.total_size = 0 /\ ~header.magic_ok
      THEN [result |-> -1,
            client |-> [cl EXCEPT !.size = size, !.buf = buf,
                                  !.total_size = total_size, !.mem = mem],
            frames |-> <<ErrorFrame(FCP_SOCKET_ERR_INVALID_MAGIC)>>,
            dispatched |-> FALSE, h |-> idle]
      ELSE IF cl.total_size = 0 /\ header.payload_length > MAX_PAYLOAD_LENGTH
      THEN [result |-> -1,
            client |-> [cl EXCEPT !.size = size, !.buf = buf,
                                  !.total_size = total_size, !.mem = mem],
            frames |-> <<ErrorFrame(FCP_SOCKET_ERR_INVALID_LENGTH)>>,
            dispatched |-> FALSE, h |-> idle]
      ELSE IF HasWholeMessage(bytes_read, total_size)
      THEN LET h == handle_client_command(
                       [header EXCEPT !.fw = PayloadAt(header, mem)],
                       fl, last_progress, layout, d)
           IN  [result |-> 1,
                client |-> [cl EXCEPT !.size = grown, !.buf = <<>>,
                                      !.total_size = 0,
                                      !.mem = PayloadAt(header, mem)],
                frames |-> h.frames, dispatched |-> TRUE, h |-> h]
      ELSE [result |-> 0,
            client |-> [cl EXCEPT !.size = grown, !.buf = buf,
                                  !.total_size = total_size, !.mem = mem],
            frames |-> <<>>, dispatched |-> FALSE, h |-> idle]

ConnIds == 1 .. MaxConns

SeqsUpTo(S, n) == UNION { [1 .. k -> S] : k \in 0 .. n }

\* Answers to FLASH/erase-progress: block counts, then 255 or a failure.
PollSeqs ==
  { q \o <<last>> : q \in SeqsUpTo({0, 2}, MaxPolls), last \in {255, -1} }

\* The device and ESP behaviours with at most one departure from GoodEsp.
EspFaults(fw) ==
  { [GoodEsp EXCEPT !.initial = s] : s \in EspStates }
  \cup { [GoodEsp EXCEPT !.startOk = FALSE] }
  \cup { [GoodEsp EXCEPT !.writeFailAt = k] : k \in {0, EspBlocks(fw.size)} }

\* What malloc'ed memory may hold behind the header: zeroes, or the whole
\* firmware payload of an earlier buffer.
HeapContents ==
  {NoFw, [size |-> 2 * ESP_FLASH_BLOCK_SIZE, hash_ok |-> TRUE, id_ok |-> TRUE]}

\* What the device may do while the request is handled, and for a firmware
\* update that brings no payload, what the fresh buffer holds.
DeviceInputsFor(req) ==
  LET t == req.msg_type
      D == NoDeviceInput
  IN  CASE t = "REBOOT" -> { [D EXCEPT !.rebootOk = b] : b \in BOOLEAN }
        [] t \in {"CONFIG_ERASE", "APP_FIRMWARE_ERASE"} ->
             { [D EXCEPT !.failAt = f] : f \in {-2, 2} }
             \cup { [D EXCEPT !.eraseOk = FALSE] }
             \cup { [D EXCEPT !.polls = q] : q \in PollSeqs }
        [] t \in {"APP_FIRMWARE_UPDATE", "ESP_FIRMWARE_UPDATE"}
             /\ req.payload_length = 0 ->
             { [D EXCEPT !.heap = h] : h \in HeapContents }
        [] t = "APP_FIRMWARE_UPDATE" /\ req.payload_length > 0 ->
             { [D EXCEPT !.failAt = f] : f \in {-2, 2} }
             \cup { [D EXCEPT !.writeFailAt = w] :
                      w \in {-1, 0, FCP_FLASH_WRITE_MAX} }
        [] t = "ESP_FIRMWARE_UPDATE" /\ req.payload_length > 0 ->
             { [D EXCEPT !.configOk = FALSE] }
             \cup { [D EXCEPT !.esp = e] : e \in EspFaults(req.fw) }
        [] OTHER -> {D}

\* A client connects: the connection waits in the accept queue.
Connect(c) ==
  /\ conn_st[c] = "unused"
  /\ Len(listen_q) < MaxPending
  /\ conn_st' = [conn_st EXCEPT ![c] = "pending"]
  /\ listen_q' = Append(listen_q, c)
  /\ lastCall' = NoCall
  /\ UNCHANGED <<cacheVars, ctlVars, client, rx, peer_closed, reqs_sent, flash,
                 flash_dev, erase_last_progress, daemon, faults, written>>

\* The connected client sends a request.
ClientSend(req) ==
  /\ client.fd >= 0
  /\ ~peer_closed
  /\ reqs_sent < MaxRequests
  /\ rx' = rx \o Pieces(req)
  /\ reqs_sent' = reqs_sent + 1
  /\ lastCall' = NoCall
  /\ UNCHANGED <<cacheVars, ctlVars, listen_q, conn_st, client, peer_closed, flash,
                 flash_dev, erase_last_progress, daemon, faults, written>>

\* The connected client closes its end.
ClientClose ==
  /\ client.fd >= 0
  /\ ~peer_closed
  /\ peer_closed' = TRUE
  /\ lastCall' = NoCall
  /\ UNCHANGED <<cacheVars, ctlVars, listen_q, conn_st, client, rx, reqs_sent,
                 flash, flash_dev, erase_last_progress, daemon, faults, written>>

\* Variant of drain_pending_connections that accepts without closing.
drain_pending_connections_KeepsOpen(q, st) ==
  [c \in ConnIds |-> IF c \in SeqRange(q) THEN "accepted" ELSE st[c]]

\* drain_pending_connections: every waiting connection is accepted and closed.
drain_pending_connections(q, st) ==
  [c \in ConnIds |-> IF c \in SeqRange(q) THEN "closed" ELSE st[c]]

\* fcp_socket_handle_events with the listening socket (listenReady) and/or
\* the client socket (clientReady) readable; n is the number of pieces the
\* read() in process_client_data returns, d what the device does if a
\* request is dispatched.
fcp_socket_handle_events(listenReady, clientReady) ==
  /\ daemon = "running"
  /\ listenReady \/ clientReady
  /\ listenReady => listen_q # <<>>
  /\ clientReady => (client.fd >= 0 /\ (rx # <<>> \/ peer_closed))
  /\ \E n \in 0 .. Len(rx) :
     /\ (n = 0) = (~clientReady \/ rx = <<>>)
     /\ Bytes(SubSeq(rx, 1, n))
          <= (IF client.size = 0 THEN InitialBufferSize ELSE client.size)
             - Bytes(client.buf)
     /\ \E d \in (IF clientReady /\ MessageComplete(client, SubSeq(rx, 1, n))
                  THEN DeviceInputsFor(HeaderOf(client.buf \o SubSeq(rx, 1, n)))
                  ELSE {NoDeviceInput}) :
       LET taken == SubSeq(rx, 1, n)
           accepts == listenReady /\ client.fd < 0
           drains == listenReady /\ client.fd >= 0
       IN
         /\ \E p \in { IF clientReady
                       THEN process_client_data(client, taken, flash,
                                                erase_last_progress, flash_dev, d)
                       ELSE [result |-> 0, client |-> client, frames |-> <<>>,
                             dispatched |-> FALSE,
                             h |-> Outcome(0, <<>>, <<>>, 0, flash,
                                           erase_last_progress)] } :
              LET q1 == IF listenReady
                        THEN (IF accepts THEN Tail(listen_q) ELSE <<>>)
                        ELSE listen_q
                  st1 == IF accepts
                         THEN [conn_st EXCEPT ![Head(listen_q)] = "accepted"]
                         ELSE IF drains
                         THEN drain_pending_connections(listen_q, conn_st)
                         ELSE conn_st
                  st2 == IF p.h.drains > 0
                         THEN drain_pending_connections(q1, st1) ELSE st1
                  q2 == IF p.h.drains > 0 THEN <<>> ELSE q1
              IN  /\ listen_q' = q2
                  /\ conn_st' = IF p.result < 0
                                THEN [st2 EXCEPT ![client.fd] = "closed"] ELSE st2
                  /\ client' = IF accepts THEN [NoClient EXCEPT !.fd = Head(listen_q)]
                               ELSE IF p.result < 0 THEN NoClient
                               ELSE p.client
                  /\ rx' = IF p.result < 0 THEN <<>> ELSE SubSeq(rx, n + 1, Len(rx))
                  /\ peer_closed' = IF p.result < 0 THEN FALSE
                                     ELSE peer_closed
                                          \/ ClientLeft(p.frames, d.closeAt)
                  /\ flash' = p.h.fl
                  /\ erase_last_progress' = p.h.last_progress
                  /\ lastCall' = [op |-> "socket_events",
                                  listen_ready |-> listenReady,
                                  client_ready |-> clientReady,
                                  accepted |-> IF accepts THEN Head(listen_q) ELSE -1,
                                  drained |-> IF drains THEN Len(listen_q) ELSE 0,
                                  result |-> p.result,
                                  dispatched |-> p.dispatched,
                                  msg_type |-> IF p.dispatched
                                               THEN HeaderOf(client.buf \o taken).msg_type
                                               ELSE "",
                                  ret |-> p.h.ret,
                                  frames |-> p.frames,
                                  delivered |-> Delivered(p.frames, d.closeAt),
                                  cmds |-> p.h.cmds,
                                  drains |-> p.h.drains,
                                  req |-> IF p.dispatched
                                          THEN HeaderOf(client.buf \o taken)
                                          ELSE Request("", NoFw),
                                  bytes_read |-> IF taken = <<>> THEN 0
                                                 ELSE Bytes(client.buf \o taken),
                                  header |-> IF taken = <<>>
                                             THEN Request("", NoFw)
                                             ELSE HeaderOf(client.buf \o taken)]
  /\ UNCHANGED <<cacheVars, ctlVars, reqs_sent, flash_dev, daemon, faults, written>>

\* fcp_socket_handle_events with only the client socket readable, at the
\* moment a client's whole request has arrived and one read() takes it: the
\* request is dispatched in this call.  d is what the device does meanwhile.
HandleWholeRequest(req, d) ==
  /\ daemon = "running"
  /\ client.fd >= 0
  /\ ~peer_closed
  /\ rx = <<>>
  /\ client.buf = <<>>
  /\ reqs_sent < MaxRequests
  /\ Bytes(Pieces(req))
       <= (IF client.size = 0 THEN InitialBufferSize ELSE client.size)
  /\ \E p \in { process_client_data(client, Pieces(req), flash,
                                    erase_last_progress, flash_dev, d) } :
       /\ reqs_sent' = reqs_sent + 1
       /\ listen_q' = IF p.h.drains > 0 THEN <<>> ELSE listen_q
       /\ conn_st' =
            LET st2 == IF p.h.drains > 0
                       THEN drain_pending_connections(listen_q, conn_st)
                       ELSE conn_st
            IN  IF p.result < 0 THEN [st2 EXCEPT ![client.fd] = "closed"]
                ELSE st2
       /\ client' = IF p.result < 0 THEN NoClient ELSE p.client
       /\ flash' = p.h.fl
       /\ erase_last_progress' = p.h.last_progress
       /\ peer_closed' = (p.result >= 0 /\ ClientLeft(p.frames, d.closeAt))
       /\ lastCall' = [op |-> "socket_events",
                       listen_ready |-> FALSE,
                       client_ready |-> TRUE,
                       accepted |-> -1,
                       drained |-> 0,
                       result |-> p.result,
                       dispatched |-> p.dispatched,
                       msg_type |-> IF p.dispatched THEN req.msg_type ELSE "",
                       ret |-> p.h.ret,
                       frames |-> p.frames,
                       delivered |-> Delivered(p.frames, d.closeAt),
                       cmds |-> p.h.cmds,
                       drains |-> p.h.drains,
                       input |-> d,
                       req |-> req,
                       bytes_read |-> Bytes(Pieces(req)),
                       header |-> HeaderOf(Pieces(req))]
  /\ UNCHANGED <<cacheVars, ctlVars, rx, flash_dev, daemon, faults, written>>

\* The number of ways the device and the ESP depart from a faultless update.
EspDepartures(p) ==
  (IF p.firstOk THEN 0 ELSE 1) + (IF p.stuck = "none" THEN 0 ELSE 1)
  + (IF p.lag = 0 THEN 0 ELSE 1) + (IF p.waitFailAt < 0 THEN 0 ELSE 1)
  + (IF p.notifyTries = 1 THEN 0 ELSE 1) + (IF p.bootOk THEN 0 ELSE 1)
  + (IF p.startOk THEN 0 ELSE 1) + (IF p.writeFailAt < 0 THEN 0 ELSE 1)

\* The behaviours of the device and the ESP during an update of fw: any state
\* of the ESP at the start and up to MaxEspFaults departures.
EspProfiles(fw) ==
  LET all == { [initial |-> i, firstOk |-> f, garbage |-> g, stuck |-> s,
                lag |-> l, waitFailAt |-> w, notifyTries |-> n, bootOk |-> b,
                startOk |-> a, writeFailAt |-> k] :
                 i \in EspStates, f \in BOOLEAN, g \in EspStates,
                 s \in {"none", "off", "dfu", "normal"}, l \in {0, 4},
                 w \in {-1, 1, 2, 3}, n \in {1, 2, 6}, b \in BOOLEAN,
                 a \in BOOLEAN, k \in -1 .. EspBlocks(fw.size) }
  IN  { p \in all : /\ EspDepartures(p) <= MaxEspFaults
                    /\ p.firstOk => p.garbage = p.initial }

\* The ESP firmware images of the update requests: the ones of Requests, an
\* empty one and one that ends inside a block.
EspImages ==
  EspFirmwares
  \cup { [size |-> z, hash_ok |-> TRUE, id_ok |-> TRUE] :
           z \in {0, ESP_FLASH_BLOCK_SIZE + 1} }

\* ------------------------------------------------------------ initial state

\* init_mix_cache marks every row dirty; add_user_control then reads each
\* control once, which cleans the row unless that first MIX/read failed.
InitMix ==
  /\ mix_dev = [r \in MixRows |-> [i \in MixCols |-> 0]]
  /\ \E d \in [MixRows -> BOOLEAN] :
       mix_cache = [r \in MixRows |->
                      [values |-> IF d[r] THEN [i \in MixCols |-> 0]
                                  ELSE mix_dev[r],
                       dirty |-> d[r]]]

\* add_mux_controls reads the three tables (the controls exist only if that
\* succeeded, so the cache starts clean) and looks the destinations up.
InitMux ==
  /\ mux_dev = MuxDevInit
  /\ mux_cache = [values |-> MuxDevInit, dirty |-> FALSE,
                  output_router_slots |-> InitRouterSlots(MuxDevInit),
                  output_fixed_input |-> InitFixedInput]

\* device_handle_control_change never dispatches a write to a read-only
\* control, and a static-source destination's control is read-only.
WritableMuxOutputs == { o \in MuxOutputs : MuxDestStaticPin[o] < 0 }

\* The capability sets exercised: a device with a mixer and one with a router.
\* The two caches share no state, so a device with both adds no behaviour.
CapSets == {{"MIX"}, {"MUX"}}

\* The socket server before any client: fcp_socket_init has run.
IdleSock ==
  /\ listen_q = <<>>
  /\ conn_st = [c \in ConnIds |-> "unused"]
  /\ client = NoClient
  /\ rx = <<>>
  /\ peer_closed = FALSE
  /\ reqs_sent = 0
  /\ flash = NoFlashInfo
  /\ erase_last_progress = -1

NothingWritten ==
  [mix |-> [c \in MixControls |-> -1],
   mux |-> [o \in MuxOutputs |-> -1],
   ctl |-> [i \in CtlIdx |-> -1]]

InitCache ==
  /\ caps \in CapSets
  /\ InitMix
  /\ InitMux
  /\ heap_oob = FALSE
  /\ daemon = "running"
  /\ faults = 0
  /\ written = NothingWritten
  /\ lastCall = NoCall
  /\ surface = [i \in CtlIdx |-> 0]
  /\ props_value = [i \in CtlIdx |-> 0]
  /\ events = {}
  /\ IdleSock
  /\ flash_dev = FullFlashLayout
  /\ loop = AtSelect
  /\ card = "present"
  /\ data_dev = NoData
  /\ ctrl_mgr = ControlVector

NextCache ==
  \/ \E c \in MixControls, rdOk \in BOOLEAN :
       ReadMixControl(c, rdOk) /\ UNCHANGED restVars
  \/ \E c \in MixControls, v \in MixVals, rdOk \in BOOLEAN, wrOk \in BOOLEAN :
       WriteMixControl(c, v, rdOk, wrOk) /\ UNCHANGED restVars
  \/ \E o \in MuxOutputs, failAt \in 0 .. 3 :
       ReadMuxControl(o, failAt) /\ UNCHANGED restVars
  \/ \E o \in WritableMuxOutputs, v \in MuxInputs, failAt \in 0 .. 3,
         ubCrash \in BOOLEAN :
       WriteMuxControl(o, v, failAt, ubCrash) /\ UNCHANGED restVars

SpecCache == InitCache /\ [][NextCache]_vars

\* add_user_control reads each control's initial value into props->value and
\* the new element (both keep 0 when that read fails).  run() subscribes to
\* events only afterwards, so no event is queued yet.
InitCtl ==
  /\ caps = {"DATA", "SYNC"}
  /\ mix_dev = [r \in MixRows |-> [i \in MixCols |-> 0]]
  /\ mix_cache = [r \in MixRows |-> [values |-> mix_dev[r], dirty |-> FALSE]]
  /\ InitMux
  /\ heap_oob = FALSE
  /\ props_value \in [CtlIdx -> CtlVals]
  /\ surface = props_value
  /\ events = {}
  /\ IdleSock
  /\ flash_dev = FullFlashLayout
  /\ daemon = "running"
  /\ faults = 0
  /\ written = NothingWritten
  /\ lastCall = NoCall
  /\ loop = AtSelect
  /\ card = "present"
  /\ data_dev = NoData
  /\ ctrl_mgr = ControlVector

NextCtl ==
  \/ \E name \in EventNames, ctlErr \in {"ok", "enodev", "elem_read"},
         wrOk \in BOOLEAN, ntOk \in BOOLEAN :
       ControlEvent(name, ctlErr, wrOk, ntOk) /\ UNCHANGED restVars
  \/ \E notification \in NotifyWords, rd \in [CtlIdx -> ReadOutcomes] :
       Notification(notification, rd) /\ UNCHANGED restVars
  \/ NotificationReadFails /\ UNCHANGED restVars
  \/ \E i \in CtlIdx, v \in CtlVals : AppWrite(i, v) /\ UNCHANGED restVars
  \/ OtherElementEvent /\ UNCHANGED restVars

SpecCtl == InitCtl /\ [][NextCtl]_vars

\* The daemon with its socket open and no client yet.
InitSock ==
  /\ caps = {"DATA", "SYNC"}
  /\ mix_dev = [r \in MixRows |-> [i \in MixCols |-> 0]]
  /\ mix_cache = [r \in MixRows |-> [values |-> mix_dev[r], dirty |-> FALSE]]
  /\ InitMux
  /\ heap_oob = FALSE
  /\ surface = [i \in CtlIdx |-> 0]
  /\ props_value = [i \in CtlIdx |-> 0]
  /\ events = {}
  /\ IdleSock
  /\ flash_dev = FullFlashLayout
  /\ daemon = "running"
  /\ faults = 0
  /\ written = NothingWritten
  /\ lastCall = NoCall
  /\ loop = AtSelect
  /\ card = "present"
  /\ data_dev = NoData
  /\ ctrl_mgr = ControlVector

NextSock ==
  \/ \E c \in ConnIds : Connect(c) /\ UNCHANGED restVars
  \/ \E req \in Requests : ClientSend(req) /\ UNCHANGED restVars
  \/ ClientClose /\ UNCHANGED restVars
  \/ \E listenReady \in BOOLEAN, clientReady \in BOOLEAN :
       fcp_socket_handle_events(listenReady, clientReady) /\ UNCHANGED restVars

SpecSock == InitSock /\ [][NextSock]_vars

\* The daemon with one client connected and nothing received from it yet.
ClientConnected ==
  /\ listen_q = <<>>
  /\ conn_st = [c \in ConnIds |-> IF c = 1 THEN "accepted" ELSE "unused"]
  /\ client = [NoClient EXCEPT !.fd = 1]
  /\ rx = <<>>
  /\ peer_closed = FALSE
  /\ reqs_sent = 0
  /\ flash = NoFlashInfo
  /\ erase_last_progress = -1

InitEsp ==
  /\ caps = {"DATA", "SYNC"}
  /\ mix_dev = [r \in MixRows |-> [i \in MixCols |-> 0]]
  /\ mix_cache = [r \in MixRows |-> [values |-> mix_dev[r], dirty |-> FALSE]]
  /\ InitMux
  /\ heap_oob = FALSE
  /\ surface = [i \in CtlIdx |-> 0]
  /\ props_value = [i \in CtlIdx |-> 0]
  /\ events = {}
  /\ ClientConnected
  /\ flash_dev = FullFlashLayout
  /\ daemon = "running"
  /\ faults = 0
  /\ written = NothingWritten
  /\ lastCall = NoCall
  /\ loop = AtSelect
  /\ card = "present"
  /\ data_dev = NoData
  /\ ctrl_mgr = ControlVector

\* One ESP_FIRMWARE_UPDATE request per run, under every device behaviour; a
\* payload or configuration the handler rejects never reaches the device.
NextEsp ==
  /\ reqs_sent = 0
  /\ \E fw \in EspImages, configOk \in BOOLEAN :
    \E p \in (IF configOk /\ fw.id_ok /\ fw.hash_ok THEN EspProfiles(fw)
              ELSE {GoodEsp}) :
      /\ HandleWholeRequest(Request("ESP_FIRMWARE_UPDATE", fw),
                            [NoDeviceInput EXCEPT !.configOk = configOk,
                                                  !.esp = p])
      /\ UNCHANGED restVars

SpecEsp == InitEsp /\ [][NextEsp]_vars

\* The app firmware images of the update requests: sizes on both sides of the
\* two limits, and a wrong digest, a wrong USB id, or both.
AppImages ==
  { [size |-> z, hash_ok |-> TRUE, id_ok |-> TRUE] :
      z \in {MinAppFirmwareSize - 1, MinAppFirmwareSize,
             2 * MinAppFirmwareSize, 2 * MinAppFirmwareSize + 1} }
  \cup { [size |-> MinAppFirmwareSize, hash_ok |-> h, id_ok |-> i] :
           h \in BOOLEAN, i \in BOOLEAN }
  \cup { [size |-> MinAppFirmwareSize - 1, hash_ok |-> FALSE, id_ok |-> FALSE] }

\* The firmware requests of a client.
FirmwareRequests ==
  { Request(t, NoFw) : t \in {"CONFIG_ERASE", "APP_FIRMWARE_ERASE"} }
  \cup { Request("APP_FIRMWARE_UPDATE", fw) : fw \in AppImages }
  \cup { Request("ESP_FIRMWARE_UPDATE", fw) :
           fw \in { e \in EspFirmwares : e.hash_ok /\ e.id_ok } }

\* One client connected to a daemon whose device has any of the layouts.
InitFlash ==
  /\ caps = {"DATA", "SYNC"}
  /\ mix_dev = [r \in MixRows |-> [i \in MixCols |-> 0]]
  /\ mix_cache = [r \in MixRows |-> [values |-> mix_dev[r], dirty |-> FALSE]]
  /\ InitMux
  /\ heap_oob = FALSE
  /\ surface = [i \in CtlIdx |-> 0]
  /\ props_value = [i \in CtlIdx |-> 0]
  /\ events = {}
  /\ ClientConnected
  /\ flash_dev \in FlashLayouts
  /\ daemon = "running"
  /\ faults = 0
  /\ written = NothingWritten
  /\ lastCall = NoCall
  /\ loop = AtSelect
  /\ card = "present"
  /\ data_dev = NoData
  /\ ctrl_mgr = ControlVector

\* The client sends firmware requests and the daemon serves them.
NextFlash ==
  \/ \E req \in FirmwareRequests : ClientSend(req) /\ UNCHANGED restVars
  \/ fcp_socket_handle_events(FALSE, TRUE) /\ UNCHANGED restVars

SpecFlash == InitFlash /\ [][NextFlash]_vars

\* ---- run(): the select loop

\* The descriptors run() hands to select: the control surface, the hwdep
\* device, and through fcp_socket_update_sets the listening socket and the
\* client socket.
Descriptors == {"ctl", "hwdep", "listen", "client"}

\* A loop body that serves the sockets first.
HandlerOrder_SocketFirst == <<"sock", "ctl", "hwdep">>

\* The handlers in the order of the loop body: process_control_event,
\* snd_hwdep_read with device_handle_notification, fcp_socket_handle_events.
HandlerOrder == <<"ctl", "hwdep", "sock">>

\* The descriptors whose FD_ISSET makes a handler act.
DescriptorsOf(handler) ==
  CASE handler = "ctl" -> {"ctl"}
    [] handler = "hwdep" -> {"hwdep"}
    [] OTHER -> {"listen", "client"}

\* select returns: it reports every descriptor that is readable.  A
\* notification word can be waiting at any time.
Select(ready) ==
  /\ daemon = "running"
  /\ loop.pc = 0
  /\ ready # {}
  /\ ("ctl" \in ready) = (events # {})
  /\ ("listen" \in ready) = (listen_q # <<>>)
  /\ ("client" \in ready) = (client.fd >= 0 /\ (rx # <<>> \/ peer_closed))
  /\ loop' = [pc |-> 1, rfds |-> ready, ran |-> <<>>]
  /\ UNCHANGED <<cacheVars, ctlVars, sockVars, daemon, faults, written,
                 lastCall>>
  /\ UNCHANGED <<card, ctrl_mgr,
                 data_dev>>

\* The loop after the handler at loop.pc has returned: on to the next
\* handler, back to select after the last one, or out of the loop (pc 4)
\* when the handler's result makes run() break.
AfterHandler(acted) ==
  loop' = [loop EXCEPT
             !.pc = IF daemon' # "running" THEN 4
                    ELSE IF loop.pc = Len(HandlerOrder) THEN 0 ELSE loop.pc + 1,
             !.ran = IF acted THEN Append(@, HandlerOrder[loop.pc]) ELSE @]

\* The loop body is at a handler whose descriptors are (not) in rfds.
AtHandler(handler, set) ==
  /\ loop.pc \in 1 .. Len(HandlerOrder)
  /\ HandlerOrder[loop.pc] = handler
  /\ (DescriptorsOf(handler) \cap loop.rfds # {}) = set

\* `if (FD_ISSET(ctl_fd, &rfds))`: process_control_event.
RunControlEvent ==
  /\ AtHandler("ctl", TRUE)
  /\ \E name \in EventNames, ctlErr \in {"ok", "enodev"} :
       ControlEvent(name, ctlErr, TRUE, TRUE)
  /\ AfterHandler(TRUE)
  /\ UNCHANGED <<card, ctrl_mgr,
                 data_dev>>

\* `if (FD_ISSET(hwdep_fd, &rfds))`: the notification word is read and
\* handed to device_handle_notification, or the read fails.
RunNotification ==
  /\ AtHandler("hwdep", TRUE)
  /\ \/ \E notification \in {4}, v \in CtlVals :
          Notification(notification,
                       [i \in CtlIdx |->
                          IF NotificationSelects(notification, Controls[i])
                          THEN v ELSE 0])
     \/ NotificationReadFails
  /\ AfterHandler(TRUE)
  /\ UNCHANGED <<card, ctrl_mgr,
                 data_dev>>

\* fcp_socket_handle_events with one of its descriptors in rfds.
RunSocketEvents ==
  /\ AtHandler("sock", TRUE)
  /\ fcp_socket_handle_events("listen" \in loop.rfds, "client" \in loop.rfds)
  /\ AfterHandler(TRUE)
  /\ UNCHANGED <<card, ctrl_mgr,
                 data_dev>>

\* A handler whose descriptors are not in rfds: its `if` is passed over, and
\* fcp_socket_handle_events returns without doing anything.
PassHandler ==
  /\ daemon = "running"
  /\ \E handler \in {"ctl", "hwdep", "sock"} : AtHandler(handler, FALSE)
  /\ UNCHANGED <<cacheVars, ctlVars, sockVars, daemon, faults, written,
                 lastCall>>
  /\ AfterHandler(FALSE)
  /\ UNCHANGED <<card, ctrl_mgr,
                 data_dev>>

\* The daemon in run() from its first select on; an application changes the
\* first element, the device sends the notification word of the first two
\* controls, and clients connect and leave meanwhile.
NextRun ==
  \/ \E ready \in SUBSET Descriptors : Select(ready)
  \/ RunControlEvent
  \/ RunNotification
  \/ RunSocketEvents
  \/ PassHandler
  \/ \E v \in CtlVals : AppWrite(0, v) /\ UNCHANGED restVars
  \/ \E c \in ConnIds : Connect(c) /\ UNCHANGED restVars
  \/ ClientClose /\ UNCHANGED restVars

SpecRun == InitSock /\ [][NextRun]_vars

\* ---- REBOOT

\* The most recent call dispatched a REBOOT whose INIT/reboot the device
\* accepted.
RebootAccepted(call) ==
  /\ call.op = "socket_events"
  /\ call.dispatched
  /\ call.msg_type = "REBOOT"
  /\ call.ret = 0

\* fcp_socket_handle_events in front of a device that restarts once it has
\* accepted INIT/reboot; a card that is gone accepts nothing.
ServeSocket(listenReady, clientReady) ==
  /\ fcp_socket_handle_events(listenReady, clientReady)
  /\ RebootAccepted(lastCall') => card # "removed"
  /\ card' = IF RebootAccepted(lastCall') /\ card = "present"
              THEN "rebooting" ELSE card
  /\ UNCHANGED <<loop, ctrl_mgr,
                 data_dev>>

\* The restarting device leaves the bus and the kernel removes its card.
CardLeaves ==
  /\ card = "rebooting"
  /\ card' = "removed"
  /\ UNCHANGED <<cacheVars, ctlVars, sockVars, daemon, faults, written,
                 lastCall, loop, ctrl_mgr,
                 data_dev>>

\* Clients connect, send REBOOT (or a request the server does not know) and
\* close; an application changes the first element while the card is there.
NextReboot ==
  \/ \E c \in ConnIds : Connect(c) /\ UNCHANGED restVars
  \/ \E t \in {"REBOOT", "UNKNOWN"} :
       ClientSend(Request(t, NoFw)) /\ UNCHANGED restVars
  \/ ClientClose /\ UNCHANGED restVars
  \/ \E listenReady \in BOOLEAN, clientReady \in BOOLEAN :
       ServeSocket(listenReady, clientReady)
  \/ \E v \in CtlVals :
       card # "removed" /\ AppWrite(0, v) /\ UNCHANGED restVars
  \/ \E name \in EventNames :
       /\ card # "removed"
       /\ ControlEvent(name, "ok", TRUE, TRUE)
       /\ UNCHANGED restVars
  \/ CardLeaves
  \/ ControlGone

\* select reports the control descriptor of a removed card in every
\* iteration of run()'s loop and process_control_event is the first handler
\* of the loop body, and a device that has accepted INIT/reboot restarts.
SpecReboot ==
  InitSock /\ [][NextReboot]_vars /\ WF_vars(CardLeaves) /\ WF_vars(ControlGone)

\* The requests whose handlers report progress.
LongRequests ==
  { Request(t, NoFw) : t \in {"CONFIG_ERASE", "APP_FIRMWARE_ERASE"} }
  \cup { Request("APP_FIRMWARE_UPDATE", fw) :
           fw \in { a \in AppImages : a.hash_ok /\ a.id_ok } }
  \cup { Request("ESP_FIRMWARE_UPDATE", fw) :
           fw \in { e \in EspFirmwares : e.hash_ok /\ e.id_ok } }

\* The daemon after it has served this client an APP_FIRMWARE_UPDATE of the
\* largest image: the client buffer has grown to that message, and the flash
\* layout is cached unless its discovery failed.
InitLeave ==
  /\ caps = {"DATA", "SYNC"}
  /\ mix_dev = [r \in MixRows |-> [i \in MixCols |-> 0]]
  /\ mix_cache = [r \in MixRows |-> [values |-> mix_dev[r], dirty |-> FALSE]]
  /\ InitMux
  /\ heap_oob = FALSE
  /\ surface = [i \in CtlIdx |-> 0]
  /\ props_value = [i \in CtlIdx |-> 0]
  /\ events = {}
  /\ listen_q = <<>>
  /\ conn_st = [c \in ConnIds |-> IF c = 1 THEN "accepted" ELSE "unused"]
  /\ client = [NoClient EXCEPT
                 !.fd = 1,
                 !.size = HeaderSize + FirmwarePrefixSize
                          + 2 * MinAppFirmwareSize + 1]
  /\ rx = <<>>
  /\ peer_closed = FALSE
  /\ reqs_sent = 0
  /\ flash \in {NoFlashInfo,
                get_segment_nums(NoFlashInfo, FullFlashLayout, -1).fl}
  /\ erase_last_progress = -1
  /\ flash_dev = FullFlashLayout
  /\ daemon = "running"
  /\ faults = 0
  /\ written = NothingWritten
  /\ lastCall = NoCall
  /\ loop = AtSelect
  /\ card = "present"
  /\ data_dev = NoData
  /\ ctrl_mgr = ControlVector

\* A client whose requests are served while it stays, or while it closes its
\* connection after taking some of the frames; the daemon then reads the
\* end of file.
NextLeave ==
  \/ \E req \in LongRequests :
       \E d \in DeviceInputsFor(req), c \in -1 .. MaxTaken :
         HandleWholeRequest(req, [d EXCEPT !.closeAt = c]) /\ UNCHANGED restVars
  \/ fcp_socket_handle_events(FALSE, TRUE) /\ UNCHANGED restVars

SpecLeave == InitLeave /\ [][NextLeave]_vars

\* ================================================================ claims

\* The MIX_WRITE / MUX_WRITE commands a call issued for table or row n.
WritesTo(call, opname, n) ==
  { k \in 1 .. Len(call.cmds) : call.cmds[k].op = opname /\ call.cmds[k].num = n }

CmdsOf(call, opname) ==
  { k \in 1 .. Len(call.cmds) : call.cmds[k].op = opname }

\* The frames of the most recent call form a response: PROGRESS frames, then
\* one ERROR or SUCCESS frame, then nothing.
IsResponse(frames) ==
  /\ Len(frames) >= 1
  /\ frames[Len(frames)].type \in {"ERROR", "SUCCESS"}
  /\ \A k \in 1 .. Len(frames) - 1 : frames[k].type = "PROGRESS"

\* C1: for every complete request handle_client_command dispatches, the
\* server sends zero or more PROGRESS frames, then exactly one ERROR or
\* SUCCESS frame, and no frame after it.
C1_OneTerminalFrame ==
  (lastCall.op = "socket_events" /\ lastCall.dispatched)
    => IsResponse(lastCall.frames)

\* The connections the daemon has accepted and not closed.
Held == { c \in ConnIds : conn_st[c] = "accepted" }

C2_State ==
  /\ Cardinality(Held) <= 1
  /\ Held = (IF client.fd >= 0 THEN {client.fd} ELSE {})

C2_Step ==
  (lastCall'.op = "socket_events" /\ lastCall'.listen_ready /\ client.fd >= 0)
    => /\ listen_q' = <<>>
       /\ \A c \in SeqRange(listen_q) : conn_st'[c] = "closed"
       /\ lastCall'.drained = Len(listen_q)
       /\ ~lastCall'.client_ready
            => (client' = client /\ rx' = rx /\ peer_closed' = peer_closed)
       /\ (lastCall'.client_ready /\ lastCall'.result >= 0)
            => /\ client'.fd = client.fd
               /\ ~lastCall'.dispatched => client'.buf \o rx' = client.buf \o rx

\* C2: the daemon never holds more than one accepted connection, and a call
\* of fcp_socket_handle_events that finds the listening socket readable
\* while a client is connected accepts and closes every pending connection
\* and leaves the client's connection and the bytes received from it so far
\* as they were.
C2_OneClientOthersDrained == []C2_State /\ [][C2_Step]_vars

\* A pending connection was drained while the client's request was half
\* received.
C2_Witness ==
  /\ lastCall.op = "socket_events"
  /\ lastCall.listen_ready
  /\ ~lastCall.client_ready
  /\ lastCall.drained >= 1
  /\ client.fd >= 0
  /\ client.buf # <<>>
  /\ \E c \in ConnIds : conn_st[c] = "closed"

\* C3: every cached mixer coefficient and router slot equals the value the
\* device holds, or its mixer row (the router cache) is marked dirty.
C3_CacheMatchesDeviceOrDirty ==
  /\ \A r \in MixRows :
       mix_cache[r].dirty \/ mix_cache[r].values = mix_dev[r]
  /\ mux_cache.dirty \/ mux_cache.values = mux_dev

\* C8: a router write that the transport accepts treats each rate on its
\* own: a rate with slot index >= 0 gets the new source pin in that slot
\* (low 12 bits and all other slots kept) and one MUX/write; a rate with
\* slot index -1 gets no cached slot changed and no MUX/write.
C8_MuxWritePerRate ==
  [][ (lastCall'.op = "write_mux" /\ lastCall'.err = 0 /\ ~lastCall'.crashed) =>
      \A rate \in Rates :
        LET o == lastCall'.offset
            slot == mux_cache.output_router_slots[o * 3 + rate]
            old == mux_cache.values[rate]
            new == mux_cache'.values[rate]
            n == Cardinality(WritesTo(lastCall', "MUX_WRITE", rate))
        IN  IF slot >= 0
            THEN /\ SlotSource(new[slot]) = input_router_pin[lastCall'.value]
                 /\ new[slot] % PinRange = old[slot] % PinRange
                 /\ \A k \in DOMAIN old : k # slot => new[k] = old[k]
                 /\ n = 1
            ELSE /\ new = old
                 /\ n = 0 ]_vars

\* State part of C9: a read of a control whose last write returned success
\* returned the written value and issued no device command.
C9_ReadState ==
  /\ (lastCall.op = "read_mix" /\ written.mix[lastCall.offset] # -1) =>
       /\ lastCall.err = 0
       /\ lastCall.value = written.mix[lastCall.offset]
       /\ lastCall.cmds = <<>>
  /\ (lastCall.op = "read_mux" /\ written.mux[lastCall.offset] # -1) =>
       /\ lastCall.err = 0
       /\ lastCall.value = written.mux[lastCall.offset]
       /\ lastCall.cmds = <<>>
  /\ (lastCall.op \in {"read_mix", "write_mix"}) =>
       \A k \in CmdsOf(lastCall, "MIX_READ") :
         /\ lastCall.cmds[k].num = MixOutputOf(lastCall.offset)
         /\ k = 1
         /\ (lastCall.cmds[k].ok => ~mix_cache[lastCall.cmds[k].num].dirty)

\* A MIX/read is issued only for a row that is dirty before the call, and a
\* clean row never becomes dirty.
C9_FetchStep ==
      /\ \A r \in MixRows : ~mix_cache[r].dirty => ~mix_cache'[r].dirty
      /\ (lastCall'.op \in {"read_mix", "write_mix"}) =>
           \A k \in CmdsOf(lastCall', "MIX_READ") :
             mix_cache[lastCall'.cmds[k].num].dirty

\* C9: after a mixer or router write that returned success, a later read of
\* that control (no invalidation happens at run time) returns the written
\* value without any MIX/read or MUX/read; a mixer row is fetched from the
\* device only while it is dirty.
C9_ReadAfterWriteFromCache == []C9_ReadState /\ [][C9_FetchStep]_vars

C9_Witness ==
  /\ lastCall.op = "read_mix"
  /\ written.mix[lastCall.offset] = 1
  /\ lastCall.value = 1

\* The row a mixer write starts from: the device's row when the cached row
\* is dirty (it is fetched first), the cached row otherwise.
RowBeforeWrite(r) == IF mix_cache[r].dirty THEN mix_dev[r] ELSE mix_cache[r].values

\* What C10 says of a mixer write that got as far as its MIX/write.
MixWriteFrame(call, r, i) ==
  /\ Cardinality(CmdsOf(call, "MIX_WRITE")) = 1
  /\ \A k \in CmdsOf(call, "MIX_WRITE") :
       /\ call.cmds[k].num = r
       /\ call.cmds[k].values[i] = call.value
       /\ \A j \in MixCols : j # i => call.cmds[k].values[j] = RowBeforeWrite(r)[j]
  /\ \A r2 \in MixRows : r2 # r => mix_cache'[r2] = mix_cache[r2]
  /\ \A k \in 1 .. Len(call.cmds) : call.cmds[k].num = r

\* C10 as stated: every write of V to the control of row r, input i issues
\* exactly one MIX/write, for row r, with coefficient i = V and the other
\* coefficients as before; no other row changes or is written.
C10_Original ==
  [][ (lastCall'.op = "write_mix") =>
        MixWriteFrame(lastCall', lastCall'.offset \div mix_input_count,
                      lastCall'.offset % mix_input_count) ]_vars

\* C10 amended: the same, except that when the row is dirty and the MIX/read
\* that fetches it is rejected, no MIX/write is issued and neither the cache
\* nor the device changes.
C10_MixWriteFrame ==
  [][ (lastCall'.op = "write_mix") =>
        LET r == lastCall'.offset \div mix_input_count
            i == lastCall'.offset % mix_input_count
        IN  IF mix_cache[r].dirty /\ ~lastCall'.cmds[1].ok
            THEN /\ lastCall'.cmds = <<MixReadCmd(r, FALSE)>>
                 /\ lastCall'.err < 0
                 /\ mix_cache' = mix_cache
                 /\ mix_dev' = mix_dev
            ELSE MixWriteFrame(lastCall', r, i) ]_vars

C10_Witness ==
  /\ lastCall.op = "write_mix"
  /\ lastCall.err = 0
  /\ Len(lastCall.cmds) = 2
  /\ lastCall.value = 1
  /\ lastCall.offset = MixControlOffset(1, 0)

\* C4: for a notification word N, device_handle_notification invokes the
\* read function of exactly the controls with (notify_client & N) # 0, each
\* once, and of no other control.
C4_NotificationReadsMaskedControls ==
  lastCall.op = "notification" =>
    /\ SeqRange(lastCall.reads) =
         { i \in CtlIdx :
             BitAnd(Controls[i].notify_client, lastCall.notification) # 0 }
    /\ Len(lastCall.reads) = Cardinality(SeqRange(lastCall.reads))

C4_Witness ==
  /\ lastCall.op = "notification"
  /\ lastCall.notification = 4
  /\ lastCall.reads = <<0, 1>>

\* C5: device_handle_control_change issues no device command and keeps the
\* cached value for an unknown name, an unchanged value or a read-only
\* control; otherwise it caches the new value, invokes the write function
\* once, and issues one DATA/notify carrying notify_device, after the write,
\* only if notify_device is non-zero (and then whenever the write succeeded).
C5_ControlChangeFrame ==
  [][ lastCall'.op = "control_change" =>
      LET c == lastCall'
          i == find_control(c.name)
          notifies == CmdsOf(c, "DATA_NOTIFY")
      IN  IF i < 0
          THEN c.cmds = <<>> /\ c.write_calls = 0 /\ props_value' = props_value
          ELSE IF c.new_val = props_value[i] \/ Controls[i].read_only
          THEN c.cmds = <<>> /\ c.write_calls = 0 /\ props_value' = props_value
          ELSE /\ props_value' = [props_value EXCEPT ![i] = c.new_val]
               /\ c.write_calls = 1
               /\ Cardinality(notifies) <= 1
               /\ notifies # {} => Controls[i].notify_device # 0
               /\ \A k \in notifies :
                    /\ k = Len(c.cmds)
                    /\ k > 1
                    /\ c.cmds[k].num = Controls[i].notify_device
                    /\ c.cmds[k - 1].op = "DATA_WRITE"
               /\ (Controls[i].notify_device # 0 /\ c.cmds[1].ok) =>
                    notifies # {} ]_vars

C5_Witness ==
  /\ lastCall.op = "control_change"
  /\ lastCall.name = "Air"
  /\ lastCall.err = 0
  /\ Len(lastCall.cmds) = 2
  /\ lastCall.cmds[2] = DataNotifyCmd(9, TRUE)

C7_LoopSurvivesWriteFailure ==
  [][ (lastCall'.op = "control_change" /\ lastCall'.err < 0) =>
        daemon' = "running" ]_vars

\* ------------------------------------------------------ ESP firmware update

\* The most recent call handled an ESP_FIRMWARE_UPDATE request.
EspUpdateHandled ==
  /\ lastCall.op = "socket_events"
  /\ lastCall.dispatched
  /\ lastCall.msg_type = "ESP_FIRMWARE_UPDATE"

\* The client was told SUCCESS.
EspUpdateSucceeded ==
  /\ EspUpdateHandled
  /\ lastCall.frames[Len(lastCall.frames)] = SuccessFrame

\* A command as the device sees it: what was asked, whatever the answer.
Asked(c) ==
  IF c.op = "ESP_DFU_WRITE" THEN <<c.op, c.arg, c.size>> ELSE <<c.op, c.arg>>

\* The boot-mode writes and AUX-DFU commands among cmds, in order.
BootAndDfu(cmds) ==
  LET sel == SelectSeq(cmds, LAMBDA c : c.op \in {"BOOT_MODE", "ESP_DFU_START",
                                                  "ESP_DFU_WRITE"})
  IN  [k \in 1 .. Len(sel) |-> Asked(sel[k])]

\* The command sequence C11 describes for a payload of `size` bytes.
ClaimedEspCommands(size) ==
  LET n == (size + 1023) \div 1024
  IN  <<<<"BOOT_MODE", "off">>, <<"ESP_DFU_START", size>>>>
      \o [k \in 1 .. n |->
            <<"ESP_DFU_WRITE", (k - 1) * 1024,
              IF size - (k - 1) * 1024 > 1024 THEN 1024
              ELSE size - (k - 1) * 1024>>]
      \o <<<<"ESP_DFU_WRITE", size, 0>>, <<"BOOT_MODE", "off">>,
           <<"BOOT_MODE", "normal">>>>

\* C11: an ESP update that ends in SUCCESS and started with the ESP in the
\* NORMAL state has issued, in this order: boot mode OFF, AUX-DFU/start with
\* the payload length, ceil(size/1024) AUX-DFU/write of consecutive blocks
\* of at most 1024 bytes covering the payload, one empty AUX-DFU/write, boot
\* mode OFF, boot mode NORMAL.
C11_CommandOrder ==
  (EspUpdateSucceeded /\ lastCall.input.esp.initial = "normal")
    => BootAndDfu(lastCall.cmds) = ClaimedEspCommands(lastCall.req.fw.size)

\* The positions of cmds before position k that hold a command opname.
Before(cmds, k, opname) == { j \in 1 .. k - 1 : cmds[j].op = opname }

\* The greatest element of a non-empty set of numbers.
Latest(S) == CHOOSE j \in S : \A i \in S : i <= j

\* Turning the ESP off failed before any AUX-DFU/start: the boot-mode write
\* or the wait for its notification failed.
TurnOffFailed(cmds) ==
  \E k \in 1 .. Len(cmds) :
    /\ Before(cmds, k, "ESP_DFU_START") = {}
    /\ ~cmds[k].ok
    /\ cmds[k].op \in {"BOOT_MODE", "WAIT"}

\* C12: AUX-DFU/start is issued only when the most recent ESP state read
\* returned OFF; when turning a NORMAL ESP off fails (boot-mode write,
\* notification wait, or five polls without OFF) the update ends with ERROR
\* and AUX-DFU/start is never issued.
C12_StartOnlyWhenOff ==
  EspUpdateHandled =>
    /\ \A k \in 1 .. Len(lastCall.cmds) :
         lastCall.cmds[k].op = "ESP_DFU_START" =>
           LET reads == Before(lastCall.cmds, k, "STATE_READ")
           IN  /\ reads # {}
               /\ lastCall.cmds[Latest(reads)].arg = "off"
    /\ TurnOffFailed(lastCall.cmds) =>
         /\ lastCall.ret # 0
         /\ Before(lastCall.cmds, Len(lastCall.cmds) + 1, "ESP_DFU_START") = {}

\* C13: when a wait_for_esp_notification ends without a DFU-change
\* notification (the 10 s pass; other notifications do not end the wait),
\* the update stops there: no AUX-DFU or boot-mode command follows and the
\* client is sent ERROR with the timeout code.
C13_TimeoutStopsUpdate ==
  EspUpdateHandled =>
    \A k \in 1 .. Len(lastCall.cmds) :
      (lastCall.cmds[k].op = "WAIT" /\ ~lastCall.cmds[k].ok) =>
        /\ \A j \in k + 1 .. Len(lastCall.cmds) :
             lastCall.cmds[j].op \notin {"BOOT_MODE", "ESP_DFU_START",
                                         "ESP_DFU_WRITE"}
        /\ lastCall.frames[Len(lastCall.frames)]
             = ErrorFrame(FCP_SOCKET_ERR_TIMEOUT)

\* C14: the update succeeds only if, after the last boot-mode write (of
\* NORMAL), a state read returned NORMAL; otherwise the client is sent
\* ERROR, never SUCCESS.
C14_SuccessOnlyWhenNormal ==
  EspUpdateSucceeded =>
    LET cmds == lastCall.cmds
        boots == Before(cmds, Len(cmds) + 1, "BOOT_MODE")
    IN  /\ boots # {}
        /\ cmds[Latest(boots)].arg = "normal"
        /\ \E j \in Latest(boots) + 1 .. Len(cmds) :
             cmds[j].op = "STATE_READ" /\ cmds[j].ok /\ cmds[j].arg = "normal"

\* The percents of the PROGRESS frames among frames, in order.
Percents(frames) ==
  LET sel == SelectSeq(frames, LAMBDA f : f.type = "PROGRESS")
  IN  [k \in 1 .. Len(sel) |-> sel[k].val]

\* C15: the PROGRESS percents of an ESP update that ends in SUCCESS begin
\* with 0, never decrease, lie in 0..100 and end with 100, and 100 is sent
\* exactly once.
C15_ProgressSequence ==
  EspUpdateSucceeded =>
    LET pc == Percents(lastCall.frames)
    IN  /\ Len(pc) >= 2
        /\ pc[1] = 0
        /\ pc[Len(pc)] = 100
        /\ \A k \in 1 .. Len(pc) : pc[k] \in 0 .. 100
        /\ \A k \in 1 .. Len(pc) - 1 : pc[k] <= pc[k + 1]
        /\ Cardinality({ k \in 1 .. Len(pc) : pc[k] = 100 }) = 1

\* A successful update of a payload that does not end on a block boundary:
\* progress was reported between 0 and 100.
C15_Witness ==
  /\ EspUpdateSucceeded
  /\ lastCall.req.fw.size % ESP_FLASH_BLOCK_SIZE # 0
  /\ \E k \in 1 .. Len(lastCall.frames) :
       /\ lastCall.frames[k].type = "PROGRESS"
       /\ lastCall.frames[k].val \notin {0, 100}

\* ------------------------------------------------------- flash operations

\* The most recent call handled a request of type t.
Handled(t) ==
  /\ lastCall.op = "socket_events"
  /\ lastCall.dispatched
  /\ lastCall.msg_type = t

\* The most recent call issued a command opname.
Issued(opname) == \E k \in 1 .. Len(lastCall.cmds) : lastCall.cmds[k].op = opname

\* The client was sent the frame f last.
EndedWith(f) == lastCall.frames[Len(lastCall.frames)] = f

\* C16: once the upgrade segment is discovered, handle_app_firmware_update
\* rejects a payload whose size is below 65536 or above the upgrade-segment
\* size with the invalid-length error and issues no FLASH/write for it; every
\* size from 65536 to the upgrade-segment size passes the check.
C16_SizeCheck ==
  (/\ Handled("APP_FIRMWARE_UPDATE")
   /\ flash.have_flash_info
   /\ flash.upgrade_segment_size >= 0)
    => LET size == lastCall.req.fw.size
       IN  IF size < 65536 \/ size > flash.upgrade_segment_size
           THEN /\ lastCall.ret = FCP_SOCKET_ERR_INVALID_LENGTH
                /\ EndedWith(ErrorFrame(FCP_SOCKET_ERR_INVALID_LENGTH))
                /\ ~Issued("FLASH_WRITE")
           ELSE /\ lastCall.ret # FCP_SOCKET_ERR_INVALID_LENGTH
                /\ ~EndedWith(ErrorFrame(FCP_SOCKET_ERR_INVALID_LENGTH))

\* A payload one byte larger than the upgrade segment was rejected by a
\* handler that had the layout cached by an earlier request.
C16_Witness ==
  /\ Handled("APP_FIRMWARE_UPDATE")
  /\ flash.have_flash_info
  /\ flash.upgrade_segment_size >= 65536
  /\ lastCall.req.fw.size = flash.upgrade_segment_size + 1
  /\ EndedWith(ErrorFrame(FCP_SOCKET_ERR_INVALID_LENGTH))
  /\ lastCall.cmds = <<>>

\* C17: no FLASH/write is issued for an APP_FIRMWARE_UPDATE unless the
\* payload's VID and PID are the device's and its SHA-256 matches; a payload
\* that reaches these checks with a mismatch is answered with the
\* invalid-hash or invalid-USB-id error, and no mismatching payload makes
\* the handler erase or write flash.
C17_NoWriteUnlessVerified ==
  Handled("APP_FIRMWARE_UPDATE") =>
    LET fw == lastCall.req.fw
        reached == /\ flash.have_flash_info
                   /\ fw.size >= 65536
                   /\ ~(/\ flash.upgrade_segment_size >= 0
                        /\ fw.size > flash.upgrade_segment_size)
    IN  /\ Issued("FLASH_WRITE") => (fw.hash_ok /\ fw.id_ok)
        /\ (~fw.hash_ok \/ ~fw.id_ok) =>
             /\ lastCall.ret # 0
             /\ lastCall.frames[Len(lastCall.frames)].type = "ERROR"
             /\ ~Issued("FLASH_WRITE")
             /\ ~Issued("FLASH_ERASE")
        /\ (reached /\ ~fw.hash_ok) =>
             EndedWith(ErrorFrame(FCP_SOCKET_ERR_INVALID_HASH))
        /\ (reached /\ fw.hash_ok /\ ~fw.id_ok) =>
             EndedWith(ErrorFrame(FCP_SOCKET_ERR_INVALID_USB_ID))

\* A payload of a valid size with the right digest and a foreign USB id was
\* refused.
C17_Witness ==
  /\ Handled("APP_FIRMWARE_UPDATE")
  /\ lastCall.req.fw.hash_ok
  /\ ~lastCall.req.fw.id_ok
  /\ EndedWith(ErrorFrame(FCP_SOCKET_ERR_INVALID_USB_ID))
  /\ ~Issued("FLASH_WRITE")

\* The segments get_segment_nums looks for.
NamedSegments == {"App_Upgrade", "App_Settings", "App_Disk", "App_Env"}

\* The device reports segment `name` at a non-zero index.
Reported(name) ==
  \E i \in DOMAIN flash_dev : i # 0 /\ flash_dev[i].name = name

C18_State ==
  /\ flash.have_flash_info => \A name \in NamedSegments : Reported(name)
  /\ (/\ lastCall.op = "socket_events"
      /\ lastCall.dispatched
      /\ \E name \in NamedSegments : ~Reported(name))
       => (~Issued("FLASH_ERASE") /\ ~Issued("FLASH_WRITE"))

C18_Step ==
  (flash.have_flash_info /\ lastCall'.op = "socket_events")
    => /\ flash' = flash
       /\ \A k \in 1 .. Len(lastCall'.cmds) :
            lastCall'.cmds[k].op \notin {"FLASH_INFO", "FLASH_SEGMENT_INFO"}

\* C18: get_segment_nums succeeds and marks the layout cached only if the
\* device reported each of App_Upgrade, App_Settings, App_Disk and App_Env at
\* a non-zero index; when one of them is absent no erase and no flash write
\* is attempted; once the layout is cached, later operations use it without
\* querying the device again.
C18_LayoutComplete == []C18_State /\ [][C18_Step]_vars

\* The device accepted a FLASH/erase in the most recent call.
EraseStarted ==
  \E k \in 1 .. Len(lastCall.cmds) :
    lastCall.cmds[k].op = "FLASH_ERASE" /\ lastCall.cmds[k].ok

\* C19: after an accepted FLASH/erase, erase_flash_segment polls
\* FLASH/erase-progress until the device returns 255 or a poll fails: every
\* answer in 0..254 is followed by another poll, the handler succeeds exactly
\* when the last answer was 255, and the client is then sent SUCCESS.
C19_EraseUntilDone ==
  ((Handled("CONFIG_ERASE") \/ Handled("APP_FIRMWARE_ERASE")) /\ EraseStarted)
    => LET cmds == lastCall.cmds
           polls == Before(cmds, Len(cmds) + 1, "FLASH_ERASE_PROGRESS")
       IN  /\ polls # {}
           /\ \A k \in polls :
                IF k = Latest(polls)
                THEN cmds[k].arg = 255 \/ ~cmds[k].ok
                ELSE cmds[k].ok /\ cmds[k].arg \in 0 .. 254
           /\ (lastCall.ret = 0) = (cmds[Latest(polls)].arg = 255)
           /\ (cmds[Latest(polls)].arg = 255) = EndedWith(SuccessFrame)

\* An erase that was polled while in progress and then reported complete.
C19_Witness ==
  /\ Handled("CONFIG_ERASE")
  /\ EraseStarted
  /\ \E k \in 1 .. Len(lastCall.cmds) :
       /\ lastCall.cmds[k].op = "FLASH_ERASE_PROGRESS"
       /\ lastCall.cmds[k].arg \in 0 .. 254
  /\ EndedWith(SuccessFrame)

\* The device round-trips of the three long loops: the erase-progress poll,
\* the app-firmware FLASH/write and the ESP AUX-DFU/write of a block.
LoopRoundTrips == {"FLASH_ERASE_PROGRESS", "FLASH_WRITE", "ESP_DFU_WRITE"}

\* C20: in every long firmware operation drain_pending_connections is called
\* between any two consecutive device round-trips of the loop, so the
\* connections that arrive meanwhile are accepted and closed before the
\* operation ends.
C20_DrainBetweenRoundTrips ==
  (lastCall.op = "socket_events" /\ lastCall.dispatched)
    => LET cmds == lastCall.cmds
       IN  /\ \A j \in 1 .. Len(cmds) : \A k \in j + 1 .. Len(cmds) :
                (/\ cmds[j].op \in LoopRoundTrips
                 /\ cmds[k].op = cmds[j].op
                 /\ cmds[j].ok)
                  => \E m \in j + 1 .. k - 1 : cmds[m].op = "DRAIN"
           /\ (\E j \in 1 .. Len(cmds) : \E k \in j + 1 .. Len(cmds) :
                 cmds[j].op \in LoopRoundTrips /\ cmds[k].op = cmds[j].op)
                => lastCall.drains > 0

\* The most recent call served a request whose client closed its connection
\* before the handler had sent all its frames.
ClientLeftDuring(call) ==
  /\ call.op = "socket_events"
  /\ call.dispatched
  /\ "input" \in DOMAIN call
  /\ ClientLeft(call.frames, call.input.closeAt)

\* C21: when the client closes its connection while an erase, an app
\* firmware write or an ESP firmware update is in progress, the sends that
\* fail do not end the operation: the handler issues the same device
\* commands in the same order, and returns the same value, as it does for a
\* client that stays connected.
C21_Step ==
  ClientLeftDuring(lastCall')
    => LET connected ==
             handle_client_command(lastCall'.req, flash, erase_last_progress,
                                   flash_dev,
                                   [lastCall'.input EXCEPT !.closeAt = -1])
       IN  /\ lastCall'.cmds = connected.cmds
           /\ lastCall'.ret = connected.ret
           /\ lastCall'.frames = connected.frames

PlaceOf(handler) ==
  CASE handler = "ctl" -> 1 [] handler = "hwdep" -> 2 [] OTHER -> 3

\* C22: in an iteration of run()'s loop the handlers that run do so in the
\* order control-surface event, device notification, socket events, each at
\* most once and only for a descriptor select reported; run() is back at
\* select only after every handler with a reported descriptor has run.
C22_HandlerOrder ==
  /\ \A j \in 1 .. Len(loop.ran) : \A k \in j + 1 .. Len(loop.ran) :
       PlaceOf(loop.ran[j]) < PlaceOf(loop.ran[k])
  /\ \A j \in 1 .. Len(loop.ran) :
       DescriptorsOf(loop.ran[j]) \cap loop.rfds # {}
  /\ (loop.pc = 0 /\ daemon = "running")
       => \A handler \in {"ctl", "hwdep", "sock"} :
            (DescriptorsOf(handler) \cap loop.rfds # {})
              => \E j \in 1 .. Len(loop.ran) : loop.ran[j] = handler

\* An iteration in which all four descriptors were reported and the three
\* handlers have run.
C22_Witness ==
  /\ loop.pc = 0
  /\ loop.rfds = Descriptors
  /\ loop.ran = <<"ctl", "hwdep", "sock">>
  /\ lastCall.op = "socket_events"

\* The most recent call read bytes from the client.
ClientDataRead ==
  /\ lastCall.op = "socket_events"
  /\ lastCall.client_ready
  /\ lastCall.bytes_read > 0

\* The call ended the client's connection after the one frame f: nothing
\* was dispatched, no connection is held any more and the buffer is gone.
RefusedWith(f) ==
  /\ lastCall.frames = <<f>>
  /\ ~lastCall.dispatched
  /\ lastCall.cmds = <<>>
  /\ lastCall.result < 0
  /\ client = NoClient
  /\ Held = {}

\* C23: process_client_data dispatches a command only once the whole header
\* and payload_length bytes of payload have been received, keeping partial
\* reads from call to call; a header without the request magic gets ERROR
\* invalid-magic and one whose payload_length is above the maximum gets
\* ERROR invalid-length, and then nothing is dispatched, the connection is
\* closed and the buffer released.
C23_DispatchWholeMessage ==
  ClientDataRead
    => LET header == lastCall.header
           n == lastCall.bytes_read
       IN  /\ lastCall.dispatched
                => /\ n >= HeaderSize + header.payload_length
                   /\ header.magic_ok
                   /\ header.payload_length <= MAX_PAYLOAD_LENGTH
                   /\ lastCall.req = header
           /\ n < HeaderSize
                => /\ ~lastCall.dispatched /\ lastCall.frames = <<>>
                   /\ lastCall.result = 0
                   /\ Bytes(client.buf) = n
           /\ (n >= HeaderSize /\ ~header.magic_ok)
                => RefusedWith(ErrorFrame(FCP_SOCKET_ERR_INVALID_MAGIC))
           /\ (n >= HeaderSize /\ header.magic_ok
                 /\ header.payload_length > MAX_PAYLOAD_LENGTH)
                => RefusedWith(ErrorFrame(FCP_SOCKET_ERR_INVALID_LENGTH))
           /\ (n >= HeaderSize /\ header.magic_ok
                 /\ header.payload_length <= MAX_PAYLOAD_LENGTH)
                => IF n >= HeaderSize + header.payload_length
                   THEN lastCall.dispatched /\ client.buf = <<>>
                   ELSE /\ ~lastCall.dispatched /\ lastCall.frames = <<>>
                        /\ lastCall.result = 0
                        /\ Bytes(client.buf) = n
                        /\ client.total_size
                             = HeaderSize + header.payload_length

\* A request larger than the initial buffer, so that it took several calls
\* to receive, dispatched by the call that read its last bytes.
C23_Witness ==
  /\ ClientDataRead
  /\ lastCall.dispatched
  /\ HeaderSize + lastCall.header.payload_length > InitialBufferSize
  /\ lastCall.bytes_read = HeaderSize + lastCall.header.payload_length
  /\ client.size = lastCall.bytes_read

\* The client of connection c reads end of file: the daemon has closed the
\* connection, or its process has ended and the kernel has closed it.
ObservesEOF(c) == conn_st[c] = "closed" \/ daemon # "running"

MaxInputs == 2
MaxSinks == 3

SND_CTL_ELEM_IFACE_MIXER == "MIXER"

\* printf's %d / %02d / %c of the small numbers that occur here.  A control
\* name is held as <<format, first argument, second argument>>: two names
\* are the same string exactly when the three parts agree.
Decimal(n) == <<"0", "1", "2", "3", "4", "5", "6", "7", "8", "9">>[n + 1]
Letter(i) == <<"A", "B", "C", "D">>[i + 1]
ControlName(format, a, b) == <<format, a, b>>

\* init_control_manager: an empty vector.
init_control_manager == <<>>

\* add_control: the record is appended; nothing looks for a record of the
\* same name first.
add_control(mgr, props) == Append(mgr, props)

\* The product map's input-controls object, in the order
\* json_object_object_foreach visits it.
InputControlConfig ==
  << [control_type |-> "air", name |-> "Line In %d Air Capture Switch"],
     [control_type |-> "phantom",
      name |-> "Line In %d Phantom Power Capture Switch"] >>

InputControlTypes ==
  { InputControlConfig[t].control_type : t \in DOMAIN InputControlConfig }

\* The device map's physical-inputs arrays: per input, the "index" of each
\* control it declares.
PhysicalInput ==
  UNION { [S -> 0 .. (MaxInputs - 1)] : S \in SUBSET InputControlTypes }
PhysicalInputArrays ==
  UNION { [1 .. n -> PhysicalInput] : n \in 1 .. MaxInputs }

\* create_input_control: the name is the configured format applied to
\* array_index + 1.
create_input_control(mgr, array_index, control_config) ==
  add_control(mgr,
    [name |-> ControlName(control_config.name, Decimal(array_index + 1), ""),
     interface |-> SND_CTL_ELEM_IFACE_MIXER,
     category |-> "DATA",
     array_index |-> array_index,
     read_only |-> FALSE,
     offset |-> 0])

\* create_input_controls: for each input in array order, for each configured
\* control type the input declares, one control.
RECURSIVE create_input_controls(_, _, _, _)
create_input_controls(mgr, inputs, i, t) ==
  IF i > Len(inputs) THEN mgr
  ELSE IF t > Len(InputControlConfig)
  THEN create_input_controls(mgr, inputs, i + 1, 1)
  ELSE LET control_config == InputControlConfig[t]
           control_type == control_config.control_type
       IN  create_input_controls(
             IF control_type \in DOMAIN inputs[i]
             THEN create_input_control(mgr, inputs[i][control_type],
                                       control_config)
             ELSE mgr,
             inputs, i, t + 1)

\* add_sync_control
add_sync_control(mgr) ==
  add_control(mgr,
    [name |-> ControlName("Sync Status", "", ""),
     interface |-> SND_CTL_ELEM_IFACE_MIXER,
     category |-> "SYNC",
     array_index |-> 0,
     read_only |-> TRUE,
     offset |-> 0])

\* add_mix_controls: one control per mixer output and mixer input; the
\* product map numbers the mixer inputs 1 .. mix_input_count.
RECURSIVE add_mix_controls(_, _, _)
add_mix_controls(mgr, i, mix_index) ==
  IF i >= mix_output_count THEN mgr
  ELSE IF mix_index >= mix_input_count THEN add_mix_controls(mgr, i + 1, 0)
  ELSE add_mix_controls(
         add_control(mgr,
           [name |-> ControlName("Mix %c Input %02d Playback Volume",
                                 Letter(i), Decimal(mix_index + 1)),
            interface |-> SND_CTL_ELEM_IFACE_MIXER,
            category |-> "MIX",
            array_index |-> 0,
            read_only |-> FALSE,
            offset |-> MixControlOffset(i, mix_index)]),
         i, mix_index + 1)

\* The device map's sources that a static-source may name.
MuxSources ==
  << [name |-> "Mix A", router_pin |-> 515],
     [name |-> "Mix B", router_pin |-> 516] >>

\* get_source_by_name: the first source of that name, 0 if there is none.
get_source_by_name(sources, name) ==
  LET i == FirstOf({ k \in DOMAIN sources : sources[k].name = name })
  IN  IF i < 0 THEN 0 ELSE i

\* The device map's destinations: the third is fed by a fixed source.
MuxDestinationPool ==
  { [name |-> "Analogue 1", router_pin |-> 16],
    [name |-> "Analogue 2", router_pin |-> 17],
    [name |-> "Mixer 3", router_pin |-> 18, static_source |-> "Mix B"] }

\* The product map's sinks; alsa_name is held as <<leading word, number>>.
MuxSinkPool ==
  { [device_name |-> "Analogue 1", alsa_name |-> <<"Analogue", "1">>],
    [device_name |-> "Analogue 2", alsa_name |-> <<"Analogue", "2">>],
    [device_name |-> "Mixer 3", alsa_name |-> <<"Mixer", "3">>] }

\* Arrays listing members of a pool in some order, none twice.
ArraysOf(pool, lens) ==
  { a \in UNION { [1 .. n -> pool] : n \in lens } :
      \A x, y \in DOMAIN a : x # y => a[x] # a[y] }

MuxSinkArrays == ArraysOf(MuxSinkPool, 1 .. MaxSinks)
MuxDestinationArrays ==
  ArraysOf(MuxDestinationPool,
           { Cardinality(MuxDestinationPool) })

ValidRouterPin(router_pin) == router_pin > 0 /\ router_pin <= PinRange - 1

\* add_mux_controls: the name of a sink's control.
MuxControlName(alsa_name) ==
  IF alsa_name[1] \in {"PCM", "Mixer"}
  THEN ControlName("%s Capture Enum", alsa_name[1], alsa_name[2])
  ELSE ControlName("%s Playback Enum", alsa_name[1], alsa_name[2])

\* add_mux_controls: what the function holds between iterations: the vector,
\* the control template's read_only, the per-output tables, and whether it
\* has returned; and, as history, the destination each output was made for.
MuxStart(mgr) ==
  [mgr |-> mgr, read_only |-> FALSE, output_count |-> 0,
   output_router_slots |-> <<>>, output_fixed_input |-> <<>>,
   returned |-> FALSE, made_for |-> <<>>]

\* add_mux_controls: the body run for sink i once destination j has the
\* sink's device_name.
MuxAddOutput(st, sink, dest, values) ==
  IF ~ValidRouterPin(dest.router_pin) THEN [st EXCEPT !.returned = TRUE]
  ELSE IF "static_source" \in DOMAIN dest
  THEN LET s == get_source_by_name(MuxSources, dest.static_source)
       IN  IF s = 0 \/ ~ValidRouterPin(MuxSources[s].router_pin)
           THEN [st EXCEPT !.returned = TRUE]
           ELSE [st EXCEPT
                   !.read_only = TRUE,
                   !.output_router_slots = @ \o <<-1, -1, -1>>,
                   !.output_fixed_input =
                      Append(@, router_pin_to_input(MuxSources[s].router_pin)),
                   !.output_count = @ + 1,
                   !.made_for = Append(@, dest),
                   !.mgr = add_control(@,
                     [name |-> MuxControlName(sink.alsa_name),
                      interface |-> SND_CTL_ELEM_IFACE_MIXER,
                      category |-> "MUX",
                      array_index |-> 0,
                      read_only |-> TRUE,
                      offset |-> st.output_count])]
  ELSE IF FindRouterSlot(values, 0, dest.router_pin) < 0
  THEN [st EXCEPT !.returned = TRUE]
  ELSE [st EXCEPT
          !.output_router_slots =
             @ \o [rate \in 1 .. 3 |->
                     FindRouterSlot(values, rate - 1, dest.router_pin)],
          !.output_fixed_input = Append(@, -1),
          !.output_count = @ + 1,
          !.made_for = Append(@, dest),
          !.mgr = add_control(@,
            [name |-> MuxControlName(sink.alsa_name),
             interface |-> SND_CTL_ELEM_IFACE_MIXER,
             category |-> "MUX",
             array_index |-> 0,
             read_only |-> st.read_only,
             offset |-> st.output_count])]

\* add_mux_controls: the loops over the sinks (i) and, for each, over the
\* destinations (j).
RECURSIVE add_mux_controls(_, _, _, _, _, _)
add_mux_controls(st, sinks, dests, values, i, j) ==
  IF st.returned \/ i > Len(sinks) THEN st
  ELSE IF j > Len(dests)
  THEN add_mux_controls(st, sinks, dests, values, i + 1, 1)
  ELSE add_mux_controls(
         IF dests[j].name = sinks[i].device_name
         THEN MuxAddOutput(st, sinks[i], dests[j], values)
         ELSE st,
         sinks, dests, values, i, j + 1)

\* devmap_type_to_data_type
devmap_type_to_data_type(type) ==
  CASE type \in {"bool", "uint8"} -> "UINT8"
    [] type = "uint16" -> "UINT16"
    [] type = "uint32" -> "UINT32"
    [] type = "int8" -> "INT8"
    [] type = "int16" -> "INT16"

\* ------------------------------------------------------- global controls
\* (global-controls.c, control-utils.c find_member_by_path_with_notify)

\* A JSON null, or a key the object does not have.
JsonNull == -1

\* json_object_get_int: 0 for NULL.
json_object_get_int(x) == IF x = JsonNull THEN 0 ELSE x

\* The device map's structs: APP_SPACE has a plain member and a member of
\* struct type MONITOR, whose members are the leaves of two-component paths.
\* nd/nc are the notify-device and notify-client of the enclosing member,
\* lnd/lnc those of every plain member.
DevmapStructs(nd, nc, lnd, lnc) ==
  [APP_SPACE |->
     [mixOutMute |-> [offset |-> 40, type |-> "uint8",
                      notify_device |-> lnd, notify_client |-> lnc],
      monitor |-> [offset |-> 64, type |-> "MONITOR",
                   notify_device |-> nd, notify_client |-> nc]],
   MONITOR |->
     [dim |-> [offset |-> 4, type |-> "bool",
               notify_device |-> lnd, notify_client |-> lnc],
      mode |-> [offset |-> 8, type |-> "uint8",
                notify_device |-> lnd, notify_client |-> lnc]]]

DevmapStructSets ==
  { DevmapStructs(nd, nc, lnd, lnc) :
      nd \in {JsonNull, 7}, nc \in {2}, lnd \in {JsonNull}, lnc \in {JsonNull, 4} }

\* The member a failed path walk leaves behind.
NoMember ==
  [offset |-> 0, type |-> "", notify_device |-> JsonNull,
   notify_client |-> JsonNull]

\* control-utils.c find_member_by_path_with_notify, from token k of the path
\* on: the offsets add up, and the last non-null notify values are kept.
RECURSIVE find_member_by_path_with_notify(_, _, _, _, _, _, _)
find_member_by_path_with_notify(structs, path, k, current_type, total_offset, last_notify_device, last_notify_client) ==
  LET failed == [err |-> -1, member |-> NoMember, member_type |-> "",
                 total_offset |-> 0, notify_device |-> 0, notify_client |-> 0]
  IN  IF current_type \notin DOMAIN structs THEN failed
      ELSE IF path[k] \notin DOMAIN structs[current_type] THEN failed
      ELSE
        LET member == structs[current_type][path[k]]
            off == total_offset + json_object_get_int(member.offset)
            nd == IF member.notify_device # JsonNull
                  THEN json_object_get_int(member.notify_device)
                  ELSE last_notify_device
            nc == IF member.notify_client # JsonNull
                  THEN json_object_get_int(member.notify_client)
                  ELSE last_notify_client
        IN  IF k = Len(path)
            THEN [err |-> 0, member |-> member, member_type |-> member.type,
                  total_offset |-> off, notify_device |-> nd,
                  notify_client |-> nc]
            ELSE find_member_by_path_with_notify(structs, path, k + 1,
                                                 member.type, off, nd, nc)

\* global-controls.c find_member_by_path, from token k of the path on: the
\* offsets add up; the member found is the last one of the path.
RECURSIVE find_member_by_path(_, _, _, _, _)
find_member_by_path(structs, path, k, current_type, total_offset) ==
  LET failed == [err |-> -1, member |-> NoMember, member_type |-> "",
                 total_offset |-> 0]
  IN  IF current_type \notin DOMAIN structs THEN failed
      ELSE IF path[k] \notin DOMAIN structs[current_type] THEN failed
      ELSE
        LET member == structs[current_type][path[k]]
            off == total_offset + json_object_get_int(member.offset)
        IN  IF k = Len(path)
            THEN [err |-> 0, member |-> member, member_type |-> member.type,
                  total_offset |-> off]
            ELSE find_member_by_path(structs, path, k + 1, member.type, off)

\* Value lists of an enum global control, "values" given as objects with
\* name and value.
EnumValueLists == {<<3, 5, 9>>, <<1, 0>>}

\* The entries a product map's global-controls object may have: the member
\* path (its dot-separated tokens) and the control configuration.
GlobalControlEntries ==
  { [path |-> <<"mixOutMute">>, name |-> "Mix %c Mute Playback Switch",
     type |-> "bool-mixer-outputs", values |-> <<>>],
    [path |-> <<"monitor", "dim">>, name |-> "Dim Playback Switch",
     type |-> "bool", values |-> <<>>],
    [path |-> <<"monitor", "gone">>, name |-> "Gone Playback Switch",
     type |-> "bool", values |-> <<>>] }
  \cup { [path |-> <<"monitor", "mode">>, name |-> "Monitor Mode",
          type |-> "enum", values |-> v] : v \in EnumValueLists }

\* The global-controls objects, in the order json_object_object_foreach
\* visits them; a key occurs once.
GlobalControlMaps ==
  { <<>> } \cup { <<e>> : e \in GlobalControlEntries }
    \cup { p \in GlobalControlEntries \X GlobalControlEntries :
             p[1].path # p[2].path }

\* create_bool_mixer_outputs_controls: one control per i below
\* device->mix_output_count as it is when the function runs.
RECURSIVE create_bool_mixer_outputs_controls(_, _, _, _, _, _)
create_bool_mixer_outputs_controls(mgr, device_mix_output_count, structs, control_config, i, found) ==
  IF found.err < 0 THEN mgr
  ELSE IF i >= device_mix_output_count THEN mgr
  ELSE create_bool_mixer_outputs_controls(
         add_control(mgr,
           [name |-> ControlName(control_config.name, Letter(i), ""),
            interface |-> SND_CTL_ELEM_IFACE_MIXER,
            category |-> "DATA",
            array_index |-> i,
            read_only |-> FALSE,
            offset |-> found.total_offset,
            data_type |-> devmap_type_to_data_type(found.member_type),
            notify_client |-> json_object_get_int(found.member.notify_client),
            notify_device |-> json_object_get_int(found.member.notify_device),
            type |-> "BOOLEAN",
            component_count |-> 0,
            enum_count |-> 0,
            enum_values |-> <<>>,
            write_func |-> "write_bitmap_data_control",
            path |-> control_config.path]),
         device_mix_output_count, structs, control_config, i + 1, found)

\* create_global_control for a configuration without "components" and
\* without "save": the offset comes from find_member_by_path, the notify
\* values from the member found.
create_global_control(mgr, device_mix_output_count, structs, control_config) ==
  LET found == find_member_by_path(structs, control_config.path, 1,
                                   "APP_SPACE", 0)
  IN  IF control_config.type = "bool-mixer-outputs"
      THEN create_bool_mixer_outputs_controls(
             mgr, device_mix_output_count, structs, control_config, 0, found)
      ELSE IF found.err < 0 THEN mgr
      ELSE add_control(mgr,
             [name |-> ControlName(control_config.name, "", ""),
              interface |-> SND_CTL_ELEM_IFACE_MIXER,
              category |-> "DATA",
              array_index |-> 0,
              read_only |-> FALSE,
              offset |-> found.total_offset,
              data_type |-> devmap_type_to_data_type(found.member_type),
              notify_client |->
                json_object_get_int(found.member.notify_client),
              notify_device |->
                json_object_get_int(found.member.notify_device),
              type |-> IF control_config.type = "enum"
                       THEN "ENUMERATED" ELSE "BOOLEAN",
              component_count |-> 0,
              enum_count |-> Len(control_config.values),
              enum_values |-> control_config.values,
              write_func |-> "write_data_control",
              path |-> control_config.path])

\* init_global_controls: every entry in turn; what create_global_control
\* returns is not looked at.
RECURSIVE init_global_controls(_, _, _, _, _)
init_global_controls(mgr, device_mix_output_count, structs, global_controls, g) ==
  IF g > Len(global_controls) THEN mgr
  ELSE init_global_controls(
         create_global_control(mgr, device_mix_output_count, structs,
                               global_controls[g]),
         device_mix_output_count, structs, global_controls, g + 1)

\* device_init: "memset(device, 0, sizeof(*device))"; mix_output_count
\* keeps this value until add_mix_controls assigns it.
device_init == [mix_output_count |-> 0, mix_input_count |-> 0]

\* device_init_controls, run by main() before the socket is opened and the
\* loop entered.  The product map it is run on declares input, global, mixer
\* and router controls, and no output controls.
device_init_controls(inputs, structs, global_controls, sinks, dests) ==
  /\ daemon = "starting"
  /\ IF ~({"INIT", "DATA"} \subseteq caps)
     THEN /\ ctrl_mgr' = init_control_manager
          /\ daemon' = "exited"
          /\ lastCall' = [op |-> "device_init_controls", err |-> -22,
                          inputs |-> inputs, sinks |-> sinks, dests |-> dests,
                          mux |-> MuxStart(init_control_manager),
                          structs |-> structs,
                          global_controls |-> global_controls]
     ELSE LET a == create_input_controls(init_control_manager, inputs, 1, 1)
              g == init_global_controls(a, device_init.mix_output_count,
                                        structs, global_controls, 1)
              b == IF "SYNC" \in caps THEN add_sync_control(g) ELSE g
              c == IF "MIX" \in caps THEN add_mix_controls(b, 0, 0) ELSE b
              d == IF "MUX" \in caps
                   THEN add_mux_controls(MuxStart(c), sinks, dests,
                                         mux_cache.values, 1, 1)
                   ELSE MuxStart(c)
          IN  /\ ctrl_mgr' = d.mgr
              /\ daemon' = "running"
              /\ lastCall' = [op |-> "device_init_controls", err |-> 0,
                              inputs |-> inputs, sinks |-> sinks,
                              dests |-> dests, mux |-> d,
                              structs |-> structs,
                              global_controls |-> global_controls]
  /\ UNCHANGED <<cacheVars, ctlVars, sockVars, faults, written, loop, card,
                 data_dev>>

StartCapSets ==
  { {"INIT", "DATA"} \cup S : S \in SUBSET {"SYNC", "MIX", "MUX"} }
    \cup { {"INIT"} }

\* main() has loaded the maps and not yet created the controls.  The runs
\* of SpecStart are those of a product map whose global-controls is empty.
InitStart ==
  /\ caps \in StartCapSets
  /\ mix_dev = [r \in MixRows |-> [i \in MixCols |-> 0]]
  /\ mix_cache = [r \in MixRows |-> [values |-> mix_dev[r], dirty |-> FALSE]]
  /\ InitMux
  /\ heap_oob = FALSE
  /\ props_value = [c \in CtlIdx |-> 0]
  /\ surface = props_value
  /\ events = {}
  /\ IdleSock
  /\ flash_dev = FullFlashLayout
  /\ daemon = "starting"
  /\ faults = 0
  /\ written = NothingWritten
  /\ lastCall = NoCall
  /\ loop = AtSelect
  /\ card = "present"
  /\ data_dev = NoData
  /\ ctrl_mgr = init_control_manager

NextStart ==
  \E inputs \in PhysicalInputArrays, sinks \in MuxSinkArrays,
     dests \in MuxDestinationArrays :
    device_init_controls(inputs, DevmapStructs(JsonNull, 2, JsonNull, 4),
                         <<>>, sinks, dests)

SpecStart == InitStart /\ [][NextStart]_vars

\* ---------------------------------------------------------------- C25

InitControlsDone == lastCall.op = "device_init_controls" /\ lastCall.err = 0

\* C25: after device_init_controls, no two records of the control vector
\* have the same (interface, name) pair.
C25_NoDuplicateControls ==
  InitControlsDone
    => \A x, y \in DOMAIN ctrl_mgr :
         (/\ ctrl_mgr[x].interface = ctrl_mgr[y].interface
          /\ ctrl_mgr[x].name = ctrl_mgr[y].name) => x = y

\* ---------------------------------------------------------------- C26

\* The router controls add_mux_controls appended to the vector.
MuxControlsMade ==
  { x \in DOMAIN ctrl_mgr : ctrl_mgr[x].category = "MUX" }

DeclaresStaticSource(dest) == "static_source" \in DOMAIN dest

\* read_mux_control of a fixed output: the input its static source is.
StaticSourceInput(dest) ==
  router_pin_to_input(
    MuxSources[get_source_by_name(MuxSources, dest.static_source)].router_pin)

\* C26: every router control add_mux_controls creates is read-only exactly
\* when its destination declares a static-source, whatever the order of the
\* sinks and destinations: a static-source destination gives a read-only
\* control with its three router slots -1 and its value the static source's
\* input index, any other destination a writable control.
C26_ReadOnlyIffStaticSource ==
  InitControlsDone
    => \A x \in MuxControlsMade :
         LET o == ctrl_mgr[x].offset
             dest == lastCall.mux.made_for[o + 1]
             m == lastCall.mux
         IN  IF DeclaresStaticSource(dest)
             THEN /\ ctrl_mgr[x].read_only
                  /\ \A rate \in 1 .. 3 : m.output_router_slots[3 * o + rate] = -1
                  /\ m.output_fixed_input[o + 1] = StaticSourceInput(dest)
             ELSE ~ctrl_mgr[x].read_only

\* ---------------------------------------------------------------- C27

\* The controls of the last notification whose value was re-read from the
\* device: selected by the word, and the read function succeeded.
ReRead ==
  { i \in CtlIdx :
      /\ NotificationSelects(lastCall.notification, Controls[i])
      /\ lastCall.rd[i] >= 0 }

\* How many surface writes of control i the last notification made.
SurfaceWritesOf(i) ==
  Cardinality({ k \in DOMAIN lastCall.surface_writes :
                  lastCall.surface_writes[k] = i })

MaxSections == 2

FIRMWARE_CONTAINER == 0

\* firmware_type_magic, indexed by enum firmware_type.
firmware_type_magic ==
  ZeroBased(<<"SCARLBOX", "SCARLET4", "SCARLESP", "SCARLEAP">>)

\* The 8-byte strings a file of the model carries where a magic is expected.
Magics == { firmware_type_magic[t] : t \in DOMAIN firmware_type_magic }
            \cup {"RIFFWAVE"}

\* firmware_type_from_magic: the index of the magic in the table, or -1.
firmware_type_from_magic(magic) ==
  FirstOf({ t \in DOMAIN firmware_type_magic : firmware_type_magic[t] = magic })

\* A file is the sequence of the pieces a reader asks fread for, in order;
\* a file that ends early is a shorter sequence (a piece that is cut short
\* is one fread cannot deliver, as if absent).
MagicPiece(magic) == [piece |-> "magic", magic |-> magic]
ContainerHeaderPiece(n) == [piece |-> "container_header", num_sections |-> n]
HeaderPiece == [piece |-> "header"]
DataPiece(sha_ok) == [piece |-> "data", sha_ok |-> sha_ok]

SectionPieces(sec) ==
  <<MagicPiece(sec.magic), HeaderPiece, DataPiece(sec.sha_ok)>>

RECURSIVE SectionsPieces(_)
SectionsPieces(secs) ==
  IF secs = <<>> THEN <<>>
  ELSE SectionPieces(Head(secs)) \o SectionsPieces(Tail(secs))

SectionDescs == [magic : Magics, sha_ok : BOOLEAN]

\* Files laid out as a section (under any leading magic but the
\* container's), and as a container header declaring n sections followed by
\* some sections.
SectionFiles ==
  { SectionPieces(sec) : sec \in { d \in SectionDescs : d.magic # "SCARLBOX" } }
ContainerFiles ==
  { <<MagicPiece("SCARLBOX"), ContainerHeaderPiece(n)>> \o SectionsPieces(secs) :
      n \in 0 .. 4,
      secs \in UNION { [1 .. k -> SectionDescs] : k \in 0 .. MaxSections } }

Prefixes(f) == { SubSeq(f, 1, k) : k \in 0 .. Len(f) }
FirmwareFiles == UNION { Prefixes(f) : f \in SectionFiles \cup ContainerFiles }

\* fread(..., 1, file) != 1: the piece at pos is not (wholly) there.
ShortRead(file, pos) == pos > Len(file)

\* read_magic
read_magic(file, pos) ==
  IF ShortRead(file, pos) THEN -1
  ELSE firmware_type_from_magic(file[pos].magic)

\* What a reader hands back: a container, NULL, or -- where it frees an
\* uninitialised pointer or reads through a null one -- whatever the build
\* makes of that: the process dies, or the call carries on to return NULL.
ReturnsContainer(num_sections, sections) ==
  { [ret |-> "container", num_sections |-> num_sections,
     sections |-> sections] }
ReturnsNull == { [ret |-> "NULL", num_sections |-> 0, sections |-> <<>>] }
Undefined ==
  ReturnsNull \cup { [ret |-> "crash", num_sections |-> 0, sections |-> <<>>] }

\* read_header: on a short read it jumps to "error" and frees `firmware`
\* before that variable has been given a value.
read_header(file, pos, type) ==
  IF ShortRead(file, pos) THEN [ub |-> TRUE, null |-> TRUE, type |-> -1]
  ELSE [ub |-> FALSE, null |-> FALSE, type |-> type]

\* read_header_and_data: with no header it jumps to "error" and reads
\* firmware->firmware_data through the null pointer; else it reads the data
\* and verifies its SHA-256.
read_header_and_data(file, pos, type) ==
  LET h == read_header(file, pos, type)
  IN  IF h.null THEN [ub |-> TRUE, null |-> TRUE, type |-> -1]
      ELSE IF ShortRead(file, pos + 1) \/ ~file[pos + 1].sha_ok
      THEN [ub |-> FALSE, null |-> TRUE, type |-> -1]
      ELSE h

\* read_magic_and_header_and_data
read_magic_and_header_and_data(file, pos) ==
  LET type == read_magic(file, pos)
  IN  IF type < 0 \/ type = FIRMWARE_CONTAINER
      THEN [ub |-> FALSE, null |-> TRUE, type |-> -1]
      ELSE read_header_and_data(file, pos + 1, type)

\* read_firmware_container: the loop over the declared sections, section i
\* starting at pos.
RECURSIVE ReadSections(_, _, _, _, _)
ReadSections(file, pos, i, num_sections, sections) ==
  IF i >= num_sections THEN ReturnsContainer(num_sections, sections)
  ELSE LET s == read_magic_and_header_and_data(file, pos)
       IN  IF s.ub THEN Undefined
           ELSE IF s.null THEN ReturnsNull
           ELSE ReadSections(file, pos + 3, i + 1, num_sections,
                             Append(sections, [type |-> s.type]))

\* read_firmware_container, the magic already read
read_firmware_container(file) ==
  IF ShortRead(file, 2) THEN ReturnsNull
  ELSE IF file[2].num_sections < 1 \/ file[2].num_sections > 3
  THEN ReturnsNull
  ELSE ReadSections(file, 3, 0, file[2].num_sections, <<>>)

\* read_firmware_file
read_firmware_file(file) ==
  LET type == read_magic(file, 1)
  IN  IF type < 0 THEN ReturnsNull
      ELSE IF type = FIRMWARE_CONTAINER THEN read_firmware_container(file)
      ELSE LET s == read_header_and_data(file, 2, type)
           IN  IF s.ub THEN Undefined
               ELSE IF s.null THEN ReturnsNull
               ELSE ReturnsContainer(1, <<[type |-> s.type]>>)

\* read_firmware_header: a container's header is handed back as read; any
\* other file goes to read_header with whatever type read_magic gave.
read_firmware_header(file) ==
  LET type == read_magic(file, 1)
  IN  IF type = FIRMWARE_CONTAINER
      THEN IF ShortRead(file, 2) THEN ReturnsNull
           ELSE ReturnsContainer(file[2].num_sections, <<>>)
      ELSE LET s == read_header(file, 2, type)
           IN  IF s.ub THEN Undefined
               ELSE ReturnsContainer(1, <<[type |-> s.type]>>)

\* The client has opened a firmware file and not yet read from it.
Opened(file) == lastCall = [op |-> "fopen", file |-> file]

\* The client reads a firmware file in full (main.c:635).
ReadFirmwareFile(file) ==
  /\ Opened(file)
  /\ \E r \in read_firmware_file(file) :
       lastCall' = [op |-> "read_firmware_file", file |-> file, result |-> r]
  /\ UNCHANGED <<cacheVars, ctlVars, sockVars, daemon, faults, written,
                 restVars>>

\* The client reads a firmware file's header (main.c:205, main.c:627).
ReadFirmwareHeader(file) ==
  /\ Opened(file)
  /\ \E r \in read_firmware_header(file) :
       lastCall' = [op |-> "read_firmware_header", file |-> file, result |-> r]
  /\ UNCHANGED <<cacheVars, ctlVars, sockVars, daemon, faults, written,
                 restVars>>

NextFirmwareFile ==
  \E file \in FirmwareFiles :
    \/ ReadFirmwareFile(file)
    \/ ReadFirmwareHeader(file)

InitFirmwareFile ==
  /\ caps = {"DATA", "SYNC"}
  /\ mix_dev = [r \in MixRows |-> [i \in MixCols |-> 0]]
  /\ mix_cache = [r \in MixRows |-> [values |-> mix_dev[r], dirty |-> FALSE]]
  /\ InitMux
  /\ heap_oob = FALSE
  /\ surface = [i \in CtlIdx |-> 0]
  /\ props_value = [i \in CtlIdx |-> 0]
  /\ events = {}
  /\ IdleSock
  /\ flash_dev = FullFlashLayout
  /\ daemon = "running"
  /\ faults = 0
  /\ written = NothingWritten
  /\ lastCall \in { [op |-> "fopen", file |-> file] : file \in FirmwareFiles }
  /\ loop = AtSelect
  /\ card = "present"
  /\ data_dev = NoData
  /\ ctrl_mgr = ControlVector

SpecFirmwareFile == InitFirmwareFile /\ [][NextFirmwareFile]_vars

\* ---------------------------------------------------------------- C28

FileRead == lastCall.op \in {"read_firmware_file", "read_firmware_header"}

\* The magic the file has at piece pos, "" where the file has ended.
MagicAt(file, pos) == IF ShortRead(file, pos) THEN "" ELSE file[pos].magic

SectionMagics == Magics \ {"SCARLBOX", "RIFFWAVE"}

\* The positions at which a container file's declared sections start.
DeclaredSectionStarts(file) ==
  { 3 * i + 3 : i \in 0 .. (file[2].num_sections - 1) }

\* The leading magic is none of the known magics.
UnknownLeadingMagic(file) == MagicAt(file, 1) \notin Magics \ {"RIFFWAVE"}

\* A container whose header declares a section count outside 1..3.
BadSectionCount(file) ==
  /\ MagicAt(file, 1) = "SCARLBOX"
  /\ ~ShortRead(file, 2)
  /\ file[2].num_sections \notin 1 .. 3

\* A container with a declared section whose magic is unknown or is the
\* container magic.
BadSectionMagic(file) ==
  /\ MagicAt(file, 1) = "SCARLBOX"
  /\ ~ShortRead(file, 2)
  /\ \E pos \in DeclaredSectionStarts(file) :
       ~ShortRead(file, pos) /\ file[pos].magic \notin SectionMagics

\* The file ends before a header it declares is complete: the container
\* header, the header of a leading section, or that of a declared section.
TruncatedHeader(file) ==
  \/ MagicAt(file, 1) = "SCARLBOX" /\ ShortRead(file, 2)
  \/ MagicAt(file, 1) \in SectionMagics /\ ShortRead(file, 2)
  \/ /\ MagicAt(file, 1) = "SCARLBOX"
     /\ ~ShortRead(file, 2)
     /\ \E pos \in DeclaredSectionStarts(file) :
          MagicAt(file, pos) \in SectionMagics /\ ShortRead(file, pos + 1)

\* A whole file that begins directly with a section magic.
WholeSectionFile(file) ==
  /\ MagicAt(file, 1) \in SectionMagics
  /\ Len(file) = 3
  /\ file[3].sha_ok

\* C28: read_firmware_file and read_firmware_header both return failure,
\* with no container, for a file whose leading magic is unknown, whose
\* container header declares a section count outside 1..3, whose section
\* magic is unknown or the container magic, or that ends before a declared
\* header is complete; and both accept a file that begins with a section
\* magic as a container of one section.
C28_MalformedFileRefused ==
  FileRead
    => LET file == lastCall.file
       IN  /\ (\/ UnknownLeadingMagic(file)
               \/ BadSectionCount(file)
               \/ BadSectionMagic(file)
               \/ TruncatedHeader(file))
                => lastCall.result.ret = "NULL"
           /\ WholeSectionFile(file)
                => /\ lastCall.result.ret = "container"
                   /\ lastCall.result.num_sections = 1
                   /\ Len(lastCall.result.sections) = 1

\* ---------------------------------------------------------------- C29

\* The AUX-DFU/write commands of the last ESP update, by position.
EspWrites ==
  { j \in 1 .. Len(lastCall.cmds) : lastCall.cmds[j].op = "ESP_DFU_WRITE" }

\* Between commands a and b (exclusive) the handler read a next-block DFU
\* notification.
NextBlockReadBetween(a, b) ==
  \E i \in (a + 1) .. (b - 1) :
    /\ lastCall.cmds[i].op = "DFU_NOTIFY_READ"
    /\ lastCall.cmds[i].arg = "next_block"

\* C29: in the block loop of an ESP update, the write of block k+1, and the
\* closing empty write after the last block, are issued only after
\* wait_for_esp_dfu_notify has read the next-block notification that
\* follows the write of block k; when that notification is not read (five
\* attempts pass, or the wait times out), no further block is written and
\* the update ends with ERROR.
C29_BlockAfterNextBlockNotify ==
  EspUpdateHandled
    => \A j \in EspWrites :
         LET later == { w \in EspWrites : w > j }
             until == IF later = {} THEN Len(lastCall.cmds) + 1
                      ELSE CHOOSE w \in later : \A v \in later : w <= v
         IN  (lastCall.cmds[j].ok /\ lastCall.cmds[j].size > 0
                /\ ~NextBlockReadBetween(j, until))
               => /\ later = {}
                  /\ lastCall.frames[Len(lastCall.frames)].type = "ERROR"

\* ---------------------------------------------------------------- C30

\* The notification words the last ESP update read from the transport.
EspWordsRead ==
  UNION { SeqRange(lastCall.cmds[k].words) :
            k \in { j \in 1 .. Len(lastCall.cmds) : lastCall.cmds[j].op = "WAIT" } }

\* The controls the last call re-read from the device.
ControlsReRead ==
  { i \in CtlIdx :
      \E k \in 1 .. Len(lastCall.cmds) :
        lastCall.cmds[k] \in { ReadCmdOf(Controls[i], ok) : ok \in BOOLEAN } }

\* C30: every notification word the daemon reads, the words read by
\* wait_for_esp_notification during an ESP update included, is passed to
\* device_handle_notification: each control whose notify_client mask
\* intersects the word is re-read.
C30_EveryWordHandled ==
  EspUpdateHandled
    => \A word \in EspWordsRead :
         \A i \in CtlIdx :
           NotificationSelects(word, Controls[i]) => i \in ControlsReRead

\* ---------------------------------------------------------------- C31

\* The FLASH/write commands of the last call, in the order issued.
FlashWrites == SelectSeq(lastCall.cmds, LAMBDA c : c.op = "FLASH_WRITE")

\* C31: for an accepted app-firmware payload of size S the FLASH/write calls
\* target the upgrade segment at offsets 0, M, 2M, ... in increasing order
\* (M = FCP_FLASH_WRITE_MAX), each carrying min(M, S - offset) bytes taken
\* from the payload at that offset, so that together they cover exactly
\* [0, S); a failing FLASH/write is the last one, and the client receives
\* the write error.
C31_ChunksCoverPayload ==
  Handled("APP_FIRMWARE_UPDATE")
    => LET S == lastCall.req.fw.size
           M == FCP_FLASH_WRITE_MAX
           W == FlashWrites
       IN  /\ \A k \in 1 .. Len(W) :
                /\ W[k].num = flash.upgrade_segment_num
                /\ W[k].arg = (k - 1) * M
                /\ W[k].from = W[k].arg
                /\ W[k].arg < S
                /\ W[k].size = (IF S - W[k].arg < M THEN S - W[k].arg ELSE M)
                /\ W[k].size <= M
                /\ k < Len(W) => W[k].ok
           /\ lastCall.ret = 0
                => /\ W # <<>>
                   /\ W[Len(W)].ok
                   /\ W[Len(W)].arg + W[Len(W)].size = S
           /\ (W # <<>> /\ ~W[Len(W)].ok)
                => /\ lastCall.ret = FCP_SOCKET_ERR_WRITE
                   /\ EndedWith(ErrorFrame(FCP_SOCKET_ERR_WRITE))

\* An update of the smallest payload, which does not end on a chunk
\* boundary: 65 chunks, the last of 768 bytes.
C31_Witness ==
  /\ Handled("APP_FIRMWARE_UPDATE")
  /\ lastCall.ret = 0
  /\ lastCall.req.fw.size = MinAppFirmwareSize
  /\ Len(FlashWrites) = 65
  /\ FlashWrites[65].size = 768

\* An update whose second FLASH/write the device rejected.
C31_WitnessFailed ==
  /\ Handled("APP_FIRMWARE_UPDATE")
  /\ Len(FlashWrites) = 2
  /\ ~FlashWrites[2].ok
  /\ EndedWith(ErrorFrame(FCP_SOCKET_ERR_WRITE))

\* ---------------------------------------------------------------- C32

\* Largest number of outputs a product map lists, and the largest value
\* written to an output control.
MaxOutputs == 3
MaxOutputValue == 1

\* The device map's APP_SPACE members the output controls refer to.
OutputMembers ==
  [volume |-> [offset |-> 100, type |-> "uint8", notify_device |-> 0,
               notify_client |-> 8],
   mute |-> [offset |-> 120, type |-> "bool", notify_device |-> 0,
             notify_client |-> 16]]

\* One entry of the product map's output-controls object.
OutputControlConfig(control_type) ==
  IF control_type = "volume"
  THEN [control_type |-> "volume", name |-> "Line %d Playback Volume",
        type |-> "int"]
  ELSE [control_type |-> "mute", name |-> "Line %d Playback Switch",
        type |-> "bool"]

\* The output-controls objects, as the sequences of control types
\* json_object_object_foreach visits.
OutputControlOrders ==
  {<<"volume">>, <<"mute">>, <<"volume", "mute">>, <<"mute", "volume">>}

\* The product map's outputs arrays: the output at position k has index
\* k - 1 and declares a volume control, with or without a mute control.
PhysicalOutput(k, kinds) ==
  [control_type \in kinds |-> [index |-> k - 1, member |-> control_type]]
PhysicalOutputArrays ==
  UNION { { [k \in 1 .. n |-> PhysicalOutput(k, kinds[k])] :
            kinds \in [1 .. n -> {{"volume"}, {"volume", "mute"}}] } :
          n \in 1 .. MaxOutputs }

\* The product map's output-link arrays, as the sets of indices listed.
OutputLinks == SUBSET (0 .. (MaxOutputs - 1))

\* create_output_control: offset and notify values come from the member;
\* every output control gets write_data_control_vol, and link is set when
\* output_link lists the array index.
create_output_control(mgr, array_index, member, control_type, control_config, output_link) ==
  add_control(mgr,
    [name |-> ControlName(control_config.name, Decimal(array_index + 1), ""),
     interface |-> SND_CTL_ELEM_IFACE_MIXER,
     category |-> "DATA",
     array_index |-> array_index,
     read_only |-> FALSE,
     offset |-> member.offset,
     data_type |-> devmap_type_to_data_type(member.type),
     notify_client |-> member.notify_client,
     notify_device |-> member.notify_device,
     type |-> IF control_config.type = "bool" THEN "BOOLEAN" ELSE "INTEGER",
     component_count |-> 0,
     enum_count |-> 0,
     enum_values |-> <<>>,
     member |-> control_type,
     link |-> array_index \in output_link])

\* create_output_controls: for each output in array order, for each
\* configured control type the output declares, one control.
RECURSIVE create_output_controls(_, _, _, _, _, _)
create_output_controls(mgr, outputs, output_controls, output_link, i, t) ==
  IF i > Len(outputs) THEN mgr
  ELSE IF t > Len(output_controls)
  THEN create_output_controls(mgr, outputs, output_controls, output_link,
                              i + 1, 1)
  ELSE LET control_type == output_controls[t]
       IN  create_output_controls(
             IF control_type \in DOMAIN outputs[i]
             THEN create_output_control(
                    mgr, outputs[i][control_type].index,
                    OutputMembers[outputs[i][control_type].member],
                    control_type, OutputControlConfig(control_type),
                    output_link)
             ELSE mgr,
             outputs, output_controls, output_link, i, t + 1)

\* The vector position write_data_control_vol takes for the linked control:
\* "idx = props - controls; if (props->array_index & 1) idx--; else idx++;"
\* (positions count from 1 here).
LinkIdx(mgr, idx) ==
  IF mgr[idx].array_index % 2 = 1 THEN idx - 1 ELSE idx + 1

\* write_data_control_vol on the control at vector position idx:
\* [err, cmds, reread]; reread is the set of positions the closing
\* device_handle_notification(props->notify_client) selects, or {} when the
\* function returned before it.
write_data_control_vol(mgr, idx, value, wrOk, linkOk) ==
  LET props == mgr[idx]
      w == write_data_control(props, value, wrOk)
      l == LinkIdx(mgr, idx)
      lw == IF props.link /\ l >= 1 /\ l <= Len(mgr)
            THEN write_data_control(mgr[l], value, linkOk)
            ELSE [err |-> 0, cmds |-> <<>>]
  IN  IF w.err < 0 THEN [err |-> w.err, cmds |-> w.cmds, reread |-> {}]
      ELSE IF lw.err < 0
      THEN [err |-> lw.err, cmds |-> w.cmds \o lw.cmds, reread |-> {}]
      ELSE [err |-> 0, cmds |-> w.cmds \o lw.cmds,
            reread |-> { j \in DOMAIN mgr :
                           NotificationSelects(props.notify_client, mgr[j]) }]

\* The surface changes an output control: its write function runs.
WriteOutputControl(idx, value, wrOk, linkOk) ==
  /\ daemon = "running"
  /\ idx \in DOMAIN ctrl_mgr
  /\ (wrOk \/ linkOk)
  /\ LET r == write_data_control_vol(ctrl_mgr, idx, value, wrOk, linkOk)
     IN  /\ (~wrOk \/ ~linkOk) => \E k \in DOMAIN r.cmds : ~r.cmds[k].ok
         /\ lastCall' = [op |-> "write_data_control_vol", idx |-> idx,
                         value |-> value, err |-> r.err, cmds |-> r.cmds,
                         reread |-> r.reread]
  /\ UNCHANGED <<cacheVars, ctlVars, sockVars, flash_dev, daemon, faults,
                 written, loop, card, ctrl_mgr,
                 data_dev>>

\* The daemon running with the output controls of one product map.
InitOutputs ==
  /\ caps = {"DATA", "SYNC"}
  /\ mix_dev = [r \in MixRows |-> [i \in MixCols |-> 0]]
  /\ mix_cache = [r \in MixRows |-> [values |-> mix_dev[r], dirty |-> FALSE]]
  /\ InitMux
  /\ heap_oob = FALSE
  /\ props_value = [c \in CtlIdx |-> 0]
  /\ surface = props_value
  /\ events = {}
  /\ IdleSock
  /\ flash_dev = FullFlashLayout
  /\ daemon = "running"
  /\ faults = 0
  /\ written = NothingWritten
  /\ lastCall = NoCall
  /\ loop = AtSelect
  /\ card = "present"
  /\ data_dev = NoData
  /\ ctrl_mgr \in { create_output_controls(init_control_manager, outputs,
                                           output_controls, output_link, 1, 1) :
                    outputs \in PhysicalOutputArrays,
                    output_controls \in OutputControlOrders,
                    output_link \in OutputLinks }

NextOutputs ==
  \E idx \in 1 .. (2 * MaxOutputs), value \in 0 .. MaxOutputValue,
     wrOk \in BOOLEAN, linkOk \in BOOLEAN :
    WriteOutputControl(idx, value, wrOk, linkOk)

SpecOutputs == InitOutputs /\ [][NextOutputs]_vars

\* The last call wrote an output control that is linked.
LinkedWrite ==
  /\ lastCall.op = "write_data_control_vol"
  /\ ctrl_mgr[lastCall.idx].link

\* The device location of a control's value.
DeviceLocation(props) ==
  props.offset + props.array_index * DataWidth(props.data_type)

\* The array index of the even/odd neighbour.
Neighbour(i) == IF i % 2 = 0 THEN i + 1 ELSE i - 1

\* C32: a write of V to a linked output control with array index i issues
\* DATA/write of V for that control and then DATA/write of V for the control
\* of the same device-map member whose array index is the even/odd neighbour
\* of i, writes V to no other control's device location, and then re-reads
\* the controls matching the written control's notify_client mask.
C32_LinkedWriteGoesToNeighbour ==
  (LinkedWrite /\ lastCall.err = 0)
    => LET props == ctrl_mgr[lastCall.idx]
           W == lastCall.cmds
       IN  /\ Len(W) >= 1
           /\ W[1] = DataWriteCmd(DeviceLocation(props), lastCall.value, TRUE)
           /\ \A k \in 2 .. Len(W) :
                /\ k = 2
                /\ W[k].op = "DATA_WRITE"
                /\ W[k].value = lastCall.value
                /\ \E j \in DOMAIN ctrl_mgr :
                     /\ ctrl_mgr[j].member = props.member
                     /\ ctrl_mgr[j].array_index = Neighbour(props.array_index)
                     /\ W[k].num = DeviceLocation(ctrl_mgr[j])
           /\ (\E j \in DOMAIN ctrl_mgr :
                 /\ ctrl_mgr[j].member = props.member
                 /\ ctrl_mgr[j].array_index = Neighbour(props.array_index))
                => Len(W) = 2
           /\ lastCall.reread =
                { j \in DOMAIN ctrl_mgr :
                    NotificationSelects(props.notify_client, ctrl_mgr[j]) }

\* ------------------------------------------------ C33, C34, C35: globals

\* Values the surface hands to a global control's write function.
GlobalValues == -1 .. 3

\* The value a location of the given width holds after DATA/write of value.
Stored(value, width) ==
  CASE width = 1 -> value % 256
    [] width = 2 -> value % 65536
    [] OTHER -> value

\* The device's value at an APP_SPACE offset.
DataAt(dev, offset) == IF offset \in DOMAIN dev THEN dev[offset] ELSE 0

\* The first index of enum_values holding read_value, -1 for none:
\* "for (i = 0; i < enum_count; i++) if (enum_values[i] == read_value)".
EnumIndexOf(props, read_value) ==
  LET hits == { i \in 0 .. (props.enum_count - 1) :
                  props.enum_values[i + 1] = read_value }
  IN  IF hits = {} THEN -1
      ELSE CHOOSE i \in hits : \A j \in hits : i <= j

\* Variant of read_data_control's closing "return -1" that hands back the
\* device value as if it were an index.
UnlistedValue_AsIndex(read_value) == [err |-> 0, value |-> read_value]

\* "log_error("Invalid enumerated value ..."); return -1;"
UnlistedValue(read_value) == [err |-> -1, value |-> 0]

\* read_data_control for a single-component control: [err, value, cmds].
read_data_control(props, dev, rdOk) ==
  LET width == DataWidth(props.data_type)
      offset == props.offset + props.array_index * width
      read_value == DataAt(dev, offset)
      cmds == <<DataReadCmd(offset, rdOk)>>
  IN  IF width = 0 THEN [err |-> -1, value |-> 0, cmds |-> <<>>]
      ELSE IF ~rdOk THEN [err |-> -5, value |-> 0, cmds |-> cmds]
      ELSE IF EnumMapped(props)
      THEN IF EnumIndexOf(props, read_value) >= 0
           THEN [err |-> 0, value |-> EnumIndexOf(props, read_value),
                 cmds |-> cmds]
           ELSE [err |-> UnlistedValue(read_value).err,
                 value |-> UnlistedValue(read_value).value, cmds |-> cmds]
      ELSE [err |-> 0, value |-> read_value, cmds |-> cmds]

\* A control whose functions are read_data_control and write_data_control:
\* a global control made by create_global_control itself.
IsGlobalDataControl(mgr, idx) ==
  /\ idx \in DOMAIN mgr
  /\ "path" \in DOMAIN mgr[idx]
  /\ mgr[idx].write_func = "write_data_control"

\* props->write_func of a global control, called for a surface change.
WriteGlobalControl(idx, value, wrOk) ==
  /\ daemon = "running"
  /\ IsGlobalDataControl(ctrl_mgr, idx)
  /\ ~wrOk => faults < MaxFaults
  /\ LET props == ctrl_mgr[idx]
         w == write_data_control(props, value, wrOk)
     IN  /\ ~wrOk => w.cmds # <<>>
         /\ faults' = IF wrOk THEN faults ELSE faults + 1
         /\ data_dev' =
              IF w.err = 0
              THEN (w.cmds[1].num :>
                      Stored(w.cmds[1].value, DataWidth(props.data_type)))
                   @@ data_dev
              ELSE data_dev
         /\ lastCall' = [op |-> "write_data_control", idx |-> idx,
                         value |-> value, err |-> w.err, cmds |-> w.cmds]
  /\ UNCHANGED <<cacheVars, ctlVars, sockVars, daemon, written, loop, card,
                 ctrl_mgr>>

\* props->read_func of a global control, called for a notification.
ReadGlobalControl(idx, rdOk) ==
  /\ daemon = "running"
  /\ IsGlobalDataControl(ctrl_mgr, idx)
  /\ ~rdOk => faults < MaxFaults
  /\ LET r == read_data_control(ctrl_mgr[idx], data_dev, rdOk)
     IN  /\ faults' = IF rdOk THEN faults ELSE faults + 1
         /\ lastCall' = [op |-> "read_data_control", idx |-> idx,
                         value |-> r.value, err |-> r.err, cmds |-> r.cmds]
  /\ UNCHANGED <<cacheVars, ctlVars, sockVars, daemon, written, loop, card,
                 ctrl_mgr, data_dev>>

\* The daemon's start on a product map with global controls, and the
\* global controls read and written afterwards.
NextGlobals ==
  \/ \E structs \in DevmapStructSets, global_controls \in GlobalControlMaps :
       device_init_controls(
         <<[air |-> 0]>>, structs, global_controls,
         CHOOSE sinks \in MuxSinkArrays : Len(sinks) = 1,
         CHOOSE dests \in MuxDestinationArrays : TRUE)
  \/ \E idx \in 1 .. 3, value \in GlobalValues, wrOk \in BOOLEAN :
       WriteGlobalControl(idx, value, wrOk)
  \/ \E idx \in 1 .. 3, rdOk \in BOOLEAN : ReadGlobalControl(idx, rdOk)

SpecGlobals == InitStart /\ [][NextGlobals]_vars

\* The global-controls entries of the product map the daemon started on.
GlobalsGiven ==
  { lastCall.global_controls[g] : g \in DOMAIN lastCall.global_controls }

\* The controls made for a global-controls entry, in vector order.
ControlsOf(entry) ==
  SelectSeq(ctrl_mgr, LAMBDA props :
              "path" \in DOMAIN props /\ props.path = entry.path)

\* C33: for a global control of type bool-mixer-outputs on a device whose
\* mixer reports N outputs (N > 0), device_init_controls makes exactly N
\* boolean controls for it, with array indices 0 .. N-1.
C33_OneControlPerMixerOutput ==
  (InitControlsDone /\ "MIX" \in caps /\ mix_output_count > 0)
    => \A entry \in GlobalsGiven :
         entry.type = "bool-mixer-outputs"
           => /\ Len(ControlsOf(entry)) = mix_output_count
              /\ \A k \in DOMAIN ControlsOf(entry) :
                   /\ ControlsOf(entry)[k].type = "BOOLEAN"
                   /\ ControlsOf(entry)[k].array_index = k - 1

\* The members a dotted path names, from APP_SPACE down.
RECURSIVE PathMembers(_, _, _, _)
PathMembers(structs, path, k, current_type) ==
  IF k > Len(path) THEN <<>>
  ELSE <<structs[current_type][path[k]]>>
         \o PathMembers(structs, path, k + 1,
                        structs[current_type][path[k]].type)

RECURSIVE SumOfOffsets(_)
SumOfOffsets(members) ==
  IF members = <<>> THEN 0
  ELSE members[1].offset + SumOfOffsets(Tail(members))

\* The last non-null value of a notify field along the members, 0 for none.
RECURSIVE LastNonNull(_, _)
LastNonNull(members, field) ==
  IF members = <<>> THEN 0
  ELSE IF members[Len(members)][field] # JsonNull
  THEN members[Len(members)][field]
  ELSE LastNonNull(SubSeq(members, 1, Len(members) - 1), field)

\* C34: a control made from a dotted APP_SPACE member path, a global
\* control included, has as offset the sum of the offsets of the members
\* along the path, and as notify_device and notify_client the last non-null
\* values along the path.
C34_PathOffsetAndNotify ==
  InitControlsDone
    => \A idx \in DOMAIN ctrl_mgr :
         "path" \in DOMAIN ctrl_mgr[idx]
           => LET members == PathMembers(lastCall.structs,
                                         ctrl_mgr[idx].path, 1, "APP_SPACE")
              IN  /\ ctrl_mgr[idx].offset = SumOfOffsets(members)
                  /\ ctrl_mgr[idx].notify_device =
                       LastNonNull(members, "notify_device")
                  /\ ctrl_mgr[idx].notify_client =
                       LastNonNull(members, "notify_client")

\* The control of the last read or write.
Called == ctrl_mgr[lastCall.idx]

C39_NoBytesDiscarded ==
  (lastCall.op = "socket_events" /\ lastCall.dispatched
     /\ lastCall.result = 1)
    => lastCall.bytes_read = HeaderSize + lastCall.req.payload_length

\* ---------------------------------------------------------------- C36

\* An ESP firmware update with a whole, valid payload, and firmware updates
\* of either kind that are a header alone (payload_length 0).
StaleRequests ==
  { Request("ESP_FIRMWARE_UPDATE",
            [size |-> 2 * ESP_FLASH_BLOCK_SIZE, hash_ok |-> TRUE,
             id_ok |-> TRUE]),
    Request("APP_FIRMWARE_UPDATE", NoFw),
    Request("ESP_FIRMWARE_UPDATE", NoFw),
    Request("CONFIG_ERASE", NoFw) }

\* One client sends firmware updates with and without a payload.
NextStale ==
  \/ \E req \in StaleRequests : ClientSend(req) /\ UNCHANGED restVars
  \/ fcp_socket_handle_events(FALSE, TRUE) /\ UNCHANGED restVars

SpecStale == InitFlash /\ [][NextStale]_vars

\* The commands of the last call that put firmware bytes into a flash.
FirmwareWrites ==
  SelectSeq(lastCall.cmds,
            LAMBDA c : c.op \in {"FLASH_WRITE", "ESP_DFU_WRITE"})

\* C36: a firmware update whose payload_length is smaller than the
\* firmware_payload prefix is rejected, and no bytes that an earlier request
\* left in the client buffer are written to a flash.
C36_ShortUpdateRejected ==
  (lastCall.op = "socket_events" /\ lastCall.dispatched
     /\ lastCall.msg_type \in {"APP_FIRMWARE_UPDATE", "ESP_FIRMWARE_UPDATE"}
     /\ lastCall.req.payload_length < FirmwarePrefixSize)
    => /\ lastCall.ret # 0
       /\ FirmwareWrites = <<>>

\* ---------------------------------------------------------------- C37

\* The call was a device_handle_control_change whose write function
\* returned an error.
WriteFuncFailed(call) ==
  /\ call.op = "control_change"
  /\ call.write_calls = 1
  /\ call.err < 0
  /\ \A k \in DOMAIN call.cmds : call.cmds[k].op # "DATA_NOTIFY"

\* C37: when the write function fails in device_handle_control_change, the
\* control's cached value is left as it was before the call.
C37_FailedWriteKeepsCache ==
  [][ WriteFuncFailed(lastCall') => props_value' = props_value ]_vars

\* ---------------------------------------------------------------- C38

\* C38: after device_handle_notification has written a re-read device value
\* to the surface for a control, the control's cached value equals the value
\* now on the surface, so that the surface event carrying that value is
\* taken as no change by device_handle_control_change.
C38_CacheFollowsSurface ==
  lastCall.op = "notification"
    => \A k \in DOMAIN lastCall.surface_writes :
         LET i == lastCall.surface_writes[k]
         IN  /\ props_value[i] = surface[i]
             /\ SameAsCached(surface[i], props_value[i])

\* ---------------------------------------------------------------- C40

\* C40: a CONFIG_ERASE or APP_FIRMWARE_ERASE that ends in SUCCESS has sent
\* PROGRESS 100 before the SUCCESS frame, whatever erases were handled
\* before it.
C40_EraseEndsWithFullProgress ==
  ((Handled("CONFIG_ERASE") \/ Handled("APP_FIRMWARE_ERASE"))
     /\ lastCall.ret = 0)
    => \E k \in 1 .. (Len(lastCall.frames) - 1) :
         lastCall.frames[k] = ProgressFrame(100)

====
